---- MODULE Spec2Model ----
(***************************************************************************)
(* A model of the surgery video analyzer:                                  *)
(*   - the master store, MongoDBClient.add_to_master_surgeries             *)
(*     (app/mongodb_client.py);                                            *)
(*   - the chunked analysis pipeline, analyze_video with                   *)
(*     analyze_video_chunk, generate_summary and rate_limit                *)
(*     (app/vertex_ai_client.py);                                          *)
(*   - the step reconciliation that COMPARISON_SURGERY_PROMPT lays down    *)
(*     for the comparison agent (app/agent.py);                            *)
(*   - the database tools the agents call, store_analysis_tool,            *)
(*     add_to_master_surgeries_tool and get_master_surgeries_tool over     *)
(*     db_functions (app/tools/db_tools.py, app/db_functions.py);          *)
(*   - the HTTP endpoints for stored steps and for video uploads           *)
(*     (app/main.py);                                                      *)
(*   - the live analysis, RealtimeVideoAnalyzer with its capture thread    *)
(*     and its analysis thread (app/realtime_video_analyzer.py);           *)
(*   - the comparison that the analysis thread starts every few frames,    *)
(*     with its cached result (app/realtime_video_analyzer.py);            *)
(*   - the way of one frame from the frame queue to the result queue,      *)
(*     and the procedure steps the analysis thread accumulates             *)
(*     (app/realtime_video_analyzer.py);                                   *)
(*   - analysis requests served side by side against one database          *)
(*     (app/mongodb_client.py);                                            *)
(*   - the rate limiters of the two modules that send requests to the      *)
(*     model (app/vertex_ai_client.py, app/realtime_video_analyzer.py).    *)
(* Each part has its own specification (SpecStore, SpecTools,              *)
(* SpecPipeline, SpecReconcile, SpecHttp, SpecLive, SpecCompare,           *)
(* SpecPublish, SpecSteps, SpecRequests, SpecRate); the variables of the   *)
(* other parts stay at their initial values.                               *)
(***************************************************************************)
EXTENDS Integers, Sequences, FiniteSets, TLC

VARIABLES
    \* ---- master store ----
    master_collection,  \* db['master_surgeries']: documents in insertion order
    store_now,          \* the store's clock, datetime.now()
    ncalls,             \* number of add_to_master_surgeries calls made so far
    lastCall,           \* the last call: arguments, returned id, collection before
    merged,             \* per document, the step lists merged into it, in call order
    analysis_collection, \* db['analysis']: documents in insertion order
    db_result,          \* what the last db_functions call returned
    tool_result,        \* what the last tool call handed to the agent
    \* ---- chunked analysis pipeline ----
    pc,                 \* where analyze_video stands: start, chunk, summary, done
    chunks,             \* len(chunks): the number of chunks split_video returned
    i,                  \* the chunk being processed, 1 .. chunks
    retry_count,        \* analyze_video's retry_count for chunk i
    attempt,            \* tenacity's attempt_number inside analyze_video_chunk
    calls,              \* generate_content invocations made so far for chunk i
    results,            \* analyze_video's results
    successful_results, \* analyze_video's successful_results
    output,             \* what analyze_video returned
    time_since_last,    \* time.time() - last_request_time, in ticks
    nreq,               \* requests sent to the model in this run, up to MaxCounted
    lastGap,            \* start of the latest request minus start of the one before
    span,               \* start of the latest request minus start of the first one,
                        \* up to SpanCap
    summary_outcome,    \* what the model did with generate_summary's request
    \* ---- step reconciliation ----
    rec_pc,                  \* where the comparison stands: idle, match, matched,
                             \* walk, done
    fresh,                   \* surgery_type and summary of the fresh analysis
    master_surgeries,        \* what get_master_surgeries_with_steps handed over
    matched_by,              \* how the master record matched, "none" without one
    current_procedure_steps, \* the steps of the fresh analysis
    master_procedure_steps,  \* the steps of the matched master record
    j,                       \* the master step the walk stands at
    missing_steps,           \* the missing_steps list built so far
    missing_from,            \* per entry of missing_steps, the master step it is for
    agent_output,            \* what the comparison agent answers
    \* ---- HTTP endpoints ----
    http_request,       \* the last request
    http_response,      \* the answer to it: status and body
    pipeline_invoked,   \* vertex_analyze_video was called for it
    agent_invoked,      \* the agent was invoked for it
    \* ---- live analysis ----
    is_running,         \* self.is_running, the one flag both loops test
    video_capture,      \* self.video_capture: None or a cv2.VideoCapture
    device_open,        \* the capture device is open
    frame_queue,        \* self.frame_queue
    current_frame,      \* self.current_frame: 0 for None, else the latest frame
    dropped,            \* the last round of a capture loop left its frame out
    sessions,           \* start_capture calls that opened the device
    capture_pc,         \* per session, where its capture thread stands
    analysis_pc,        \* per session, where its analysis thread stands
    ctl_pc,             \* where the endpoint being served stands
    restarting,         \* the stop_capture under way is that of the start endpoint
    \* ---- live comparison ----
    loop_pc,                \* per analysis thread: unborn, frame (line 236),
                            \* request (the model is asked), decide (line 277)
    frame_count,            \* per analysis thread, its frame_count modulo 5
    accumulated_steps,      \* len(self.accumulated_steps), up to the 3 that matter
    should_run_comparison,  \* per analysis thread, what it found at lines 272-276
    since_comparison_call,  \* time.time() - self.last_comparison_call, in seconds,
                            \* up to comparison_rate_limit
    since_request,          \* time.time() - last_request_time of the live module,
                            \* in seconds, up to its RATE_LIMIT_DELAY
    last_comparison_result, \* self.last_comparison_result
    in_flight,              \* _run_comparison_agent threads that have not ended
    result_queue,           \* self.result_queue: the dict last put, and the puts
    start_gap,              \* start of the latest comparison thread minus start of
                            \* the one before, up to comparison_rate_limit, which it
                            \* also is while fewer than two have started
    followed,               \* where one frame, picked when it is dequeued, has got
                            \* to: under analysis, with a comparison thread, put
                            \* into result_queue, or dropped
    timeline,               \* the wall clock, in seconds, and self.accumulated_steps
                            \* with the start and the end of each step
    \* ---- analysis requests side by side ----
    request_pc,         \* per worker: idle, store_analysis, find_one, write
    request,            \* per worker, the request it serves: its number and its
                        \* surgery_type
    existing_doc,       \* per worker, `existing`: the document its find_one returned
    requests,           \* requests begun so far
    crashes,            \* crashes of the process so far
    merged_requests,    \* per master document, the requests whose update_one or
                        \* insert_one reached it
    \* ---- the two rate limiters ----
    rate_pc,            \* per thread, where it is in rate_limit: out, sleep, write
    sleep_left,         \* per thread, what is left of its time.sleep, in ticks
    last_request_age,   \* per module, time.time() - last_request_time, in ticks,
                        \* up to RATE_LIMIT_DELAY
    latest_request,     \* the latest request to the model: its component, and the
                        \* time since its start, up to RATE_LIMIT_DELAY
    request_gap         \* the latest two requests: their components, and start of
                        \* the second minus start of the first, up to
                        \* RATE_LIMIT_DELAY

storeVars == <<master_collection, store_now, ncalls, lastCall, merged,
               analysis_collection, db_result, tool_result>>
pipeVars == <<pc, chunks, i, retry_count, attempt, calls, results, successful_results,
              output, time_since_last, nreq, lastGap, span, summary_outcome>>
recVars == <<rec_pc, fresh, master_surgeries, matched_by, current_procedure_steps,
             master_procedure_steps, j, missing_steps, missing_from, agent_output>>
httpVars == <<http_request, http_response, pipeline_invoked, agent_invoked>>
liveVars == <<is_running, video_capture, device_open, frame_queue, current_frame,
              dropped, sessions, capture_pc, analysis_pc, ctl_pc, restarting>>
cmpVars == <<loop_pc, frame_count, accumulated_steps, should_run_comparison,
             since_comparison_call, since_request, last_comparison_result, in_flight,
             result_queue, start_gap, followed, timeline>>
reqVars == <<request_pc, request, existing_doc, requests, crashes, merged_requests>>
rateVars == <<rate_pc, sleep_left, last_request_age, latest_request, request_gap>>
vars == <<storeVars, pipeVars, recVars, httpVars, liveVars, cmpVars, reqVars, rateVars>>

(***************************************************************************)
(* Bounds of the store model.                                              *)
(***************************************************************************)
MaxCalls == 3

\* surgery_type values: two spellings that differ in letter case only
SurgeryTypes == {"Hernia repair", "hernia repair"}
\* procedure_steps arguments
StepLists == {<<>>, <<"s1">>, <<"s2", "s3">>}
\* summary arguments
Summaries == {"sum1", "sum2"}

(***************************************************************************)
(* master_id arguments.  A master_id is None, the empty string, a string   *)
(* that is no ObjectId, or 24 hex digits; the hex digits name the ObjectId *)
(* oid and are written in lower case or in upper case.                     *)
(***************************************************************************)
NoneId == [kind |-> "none", oid |-> 0, upper |-> FALSE]
EmptyId == [kind |-> "empty", oid |-> 0, upper |-> FALSE]
InvalidId == [kind |-> "invalid", oid |-> 0, upper |-> FALSE]
HexIds == [kind : {"hex"}, oid : 1 .. (Cardinality(SurgeryTypes) + 1), upper : BOOLEAN]
MasterIds == {NoneId, EmptyId, InvalidId} \cup HexIds

\* `if master_id:` -- None and "" are falsy
Truthy(master_id) == master_id.kind \notin {"none", "empty"}

\* ObjectId(master_id): the ObjectId the string denotes, 0 when it raises InvalidId;
\* bytes.fromhex reads upper-case and lower-case digits alike
ObjectId(master_id) == IF master_id.kind = "hex" THEN master_id.oid ELSE 0

\* str(existing["_id"]), str(result.inserted_id): always lower-case hex
StrOfId(oid) == [kind |-> "hex", oid |-> oid, upper |-> FALSE]

\* indices of the documents that match a filter
IdsOf(coll) == {coll[k]._id : k \in 1 .. Len(coll)}
MatchById(coll, oid) == {k \in 1 .. Len(coll) : coll[k]._id = oid}
\* a faulty variant: surgery_type is compared without regard to letter case
MatchByTypeIgnoringCase(coll, surgery_type) ==
    LET casefold(string) == IF string = "Hernia repair" THEN "hernia repair" ELSE string
    IN  {k \in 1 .. Len(coll) : casefold(coll[k].surgery_type) = casefold(surgery_type)}

\* line 84: find_one({'surgery_type': surgery_type}) matches the very string
MatchByType(coll, surgery_type) ==
    {k \in 1 .. Len(coll) : coll[k].surgery_type = surgery_type}

Min(S) == CHOOSE x \in S : \A y \in S : x <= y
Max(S) == CHOOSE x \in S : \A y \in S : x >= y

\* find_one: the first matching document in natural order, 0 for None
FindOne(matches) == IF matches = {} THEN 0 ELSE Min(matches)

\* a faulty variant: the type is searched first, the explicit id only when no type matches
FindExistingTypeFirst(coll, surgery_type, master_id) ==
    IF MatchByType(coll, surgery_type) # {}
    THEN FindOne(MatchByType(coll, surgery_type))
    ELSE FindOne(MatchById(coll, ObjectId(master_id)))

\* a faulty variant: a master_id that is no ObjectId resolves to no document
FindExistingInvalidCreates(coll, surgery_type, master_id) ==
    IF Truthy(master_id)
    THEN IF ObjectId(master_id) # 0
         THEN IF FindOne(MatchById(coll, ObjectId(master_id))) # 0
              THEN FindOne(MatchById(coll, ObjectId(master_id)))
              ELSE FindOne(MatchByType(coll, surgery_type))
         ELSE 0
    ELSE FindOne(MatchByType(coll, surgery_type))

\* a faulty variant: a master_id that names no document resolves to no document
FindExistingStaleCreates(coll, surgery_type, master_id) ==
    IF Truthy(master_id)
    THEN IF ObjectId(master_id) # 0
         THEN FindOne(MatchById(coll, ObjectId(master_id)))
         ELSE FindOne(MatchByType(coll, surgery_type))
    ELSE FindOne(MatchByType(coll, surgery_type))

\* lines 71-84: the document the call resolves to (its index), 0 when there is none
FindExisting(coll, surgery_type, master_id) ==
    IF Truthy(master_id)
    THEN IF ObjectId(master_id) # 0
         THEN IF FindOne(MatchById(coll, ObjectId(master_id))) # 0
              THEN FindOne(MatchById(coll, ObjectId(master_id)))
              ELSE FindOne(MatchByType(coll, surgery_type))
         ELSE FindOne(MatchByType(coll, surgery_type))
    ELSE FindOne(MatchByType(coll, surgery_type))

\* a faulty variant: the new steps are put in front of the existing ones
UpdatedDocPrepend(existing, procedure_steps, summary, now) ==
    [existing EXCEPT !.summary = summary,
                     !.procedure_steps = procedure_steps \o existing.procedure_steps,
                     !.last_updated = now]

\* a faulty variant: the old summary is kept when there is one
UpdatedDocKeepSummary(existing, procedure_steps, summary, now) ==
    [existing EXCEPT !.procedure_steps = existing.procedure_steps \o procedure_steps,
                     !.last_updated = now]

\* a faulty variant: the $set stamps created_at as well
UpdatedDocRestamped(existing, procedure_steps, summary, now) ==
    [existing EXCEPT !.summary = summary,
                     !.procedure_steps = existing.procedure_steps \o procedure_steps,
                     !.created_at = now,
                     !.last_updated = now]

\* lines 86-109: the document after update_one's $set
UpdatedDoc(existing, procedure_steps, summary, now) ==
    [existing EXCEPT !.summary = summary,
                     !.procedure_steps = existing.procedure_steps \o procedure_steps,
                     !.last_updated = now]

\* a faulty variant: last_updated is taken from a second, later reading of the clock
NewDocLateStamp(oid, surgery_type, procedure_steps, summary, now) ==
    [_id |-> oid, surgery_type |-> surgery_type, summary |-> summary,
     procedure_steps |-> procedure_steps, created_at |-> now, last_updated |-> now + 1]

\* lines 113-129: the document insert_one stores, with the id the store gives it
NewDoc(oid, surgery_type, procedure_steps, summary, now) ==
    [_id |-> oid, surgery_type |-> surgery_type, summary |-> summary,
     procedure_steps |-> procedure_steps, created_at |-> now, last_updated |-> now]

\* the ObjectId insert_one generates: one no document has
FreshId(coll) == IF coll = <<>> THEN 1 ELSE Max(IdsOf(coll)) + 1

\* the store operation of a call that raises (connectivity): none, the find_one by
\* _id of line 75, the find_one by surgery_type of lines 78, 81 and 84, or the
\* update_one or insert_one of lines 99 and 129
StoreFaults == {"none", "find_by_id", "find_by_type", "write"}

\* whether add_to_master_surgeries gets to the operation that raises
Applicable(fault, coll, master_id) ==
    CASE fault = "none" -> TRUE
      [] fault = "find_by_id" -> Truthy(master_id) /\ ObjectId(master_id) # 0
      [] fault = "find_by_type" ->
            ~(/\ Truthy(master_id)
              /\ ObjectId(master_id) # 0
              /\ MatchById(coll, ObjectId(master_id)) # {})
      [] fault = "write" -> TRUE

\* lines 71-84 with a store that may raise: the `except Exception` of line 79
\* takes a find_one by _id that raises like an invalid id
ExistingWhen(fault, coll, surgery_type, master_id) ==
    IF fault = "find_by_id"
    THEN FindOne(MatchByType(coll, surgery_type))
    ELSE FindExisting(coll, surgery_type, master_id)

\* the exception leaves add_to_master_surgeries, or store_analysis
Raises(fault) == fault \in {"find_by_type", "write"}

(***************************************************************************)
(* The strings db_functions.py and tools/db_tools.py build, as the list of *)
(* their parts: a literal text, or the hex digits of an id.                *)
(***************************************************************************)
Text(t) == [kind |-> "text", text |-> t, id |-> NoneId]
IdText(id) == [kind |-> "id", text |-> "", id |-> id]

\* str(e) of the exception the store raised
ExceptionText == Text("connection refused")

\* db_functions.py, lines 41-47: store_analysis_in_db's return value
store_analysis_in_db(raised, analysis_id) ==
    IF raised
    THEN <<Text("Error storing analysis: "), ExceptionText>>
    ELSE <<IdText(StrOfId(analysis_id))>>

\* db_functions.py, lines 102-113: add_to_master_surgeries_db's return value;
\* master_id is a str already
add_to_master_surgeries_db(raised, master_id) ==
    IF raised
    THEN <<Text("Error adding to master surgeries: "), ExceptionText>>
    ELSE <<IdText(master_id)>>

\* tools/db_tools.py, line 53
store_analysis_tool(analysis_id) ==
    <<Text("Analysis stored successfully with ID: ")>> \o analysis_id

\* tools/db_tools.py, line 122
add_to_master_surgeries_tool(result_id) ==
    <<Text("Added to master surgeries with ID: ")>> \o result_id

NoCall ==
    [surgery_type |-> "", procedure_steps |-> <<>>, summary |-> "",
     master_id |-> NoneId, ret |-> NoneId, time |-> 0, existing |-> 0, before |-> <<>>,
     op |-> "", fault |-> "none"]

InitStore ==
    /\ master_collection = <<>>
    /\ store_now = 0
    /\ ncalls = 0
    /\ lastCall = NoCall
    /\ merged = <<>>
    /\ analysis_collection = <<>>
    /\ db_result = <<>>
    /\ tool_result = <<>>

(***************************************************************************)
(* The add_to_master_surgeries tool: add_to_master_surgeries_tool calls    *)
(* add_to_master_surgeries_db, which calls                                 *)
(* add_to_master_surgeries(surgery_type, procedure_steps, summary,         *)
(* master_id), lines 50-130 of mongodb_client.py, run without              *)
(* interleaving.  The call happens at a time later than every earlier      *)
(* call; fault says which of its store operations raises.                  *)
(***************************************************************************)
AddToMasterSurgeries(surgery_type, procedure_steps, summary, master_id, fault) ==
    /\ ncalls < MaxCalls
    /\ Applicable(fault, master_collection, master_id)
    /\ LET now == store_now + 1
           existing == ExistingWhen(fault, master_collection, surgery_type, master_id)
           oid == FreshId(master_collection)
           call == [surgery_type |-> surgery_type,
                    procedure_steps |-> procedure_steps,
                    summary |-> summary, master_id |-> master_id,
                    ret |-> NoneId, time |-> now, existing |-> existing,
                    before |-> master_collection,
                    op |-> "add_to_master_surgeries", fault |-> fault]
       IN /\ store_now' = now
          /\ ncalls' = ncalls + 1
          /\ IF Raises(fault)
             THEN /\ UNCHANGED <<master_collection, merged>>
                  /\ lastCall' = call
             ELSE IF existing # 0
             THEN /\ master_collection' =
                        [master_collection EXCEPT ![existing] =
                            UpdatedDoc(master_collection[existing], procedure_steps,
                                       summary, now)]
                  /\ merged' = [merged EXCEPT ![existing] = @ \o procedure_steps]
                  /\ lastCall' =
                        [call EXCEPT !.ret = StrOfId(master_collection[existing]._id)]
             ELSE /\ master_collection' =
                        Append(master_collection,
                               NewDoc(oid, surgery_type, procedure_steps, summary, now))
                  /\ merged' = Append(merged, procedure_steps)
                  /\ lastCall' = [call EXCEPT !.ret = StrOfId(oid)]
    /\ db_result' = add_to_master_surgeries_db(Raises(fault), lastCall'.ret)
    /\ tool_result' = add_to_master_surgeries_tool(db_result')
    /\ UNCHANGED analysis_collection
    /\ UNCHANGED <<pipeVars, recVars, httpVars, liveVars, cmpVars, reqVars, rateVars>>

(***************************************************************************)
(* The store_analysis tool: store_analysis_tool calls store_analysis_in_db,*)
(* which calls store_analysis(analysis_data), lines 27-48 of               *)
(* mongodb_client.py; its one store operation is insert_one.               *)
(***************************************************************************)
StoreAnalysis(surgery_type, fault) ==
    /\ ncalls < MaxCalls
    /\ fault \in {"none", "write"}
    /\ LET now == store_now + 1
           oid == FreshId(analysis_collection)
       IN /\ store_now' = now
          /\ ncalls' = ncalls + 1
          /\ analysis_collection' =
                IF Raises(fault)
                THEN analysis_collection
                ELSE Append(analysis_collection,
                            [_id |-> oid, surgery_type |-> surgery_type,
                             created_at |-> now])
          /\ lastCall' = [NoCall EXCEPT !.surgery_type = surgery_type,
                                        !.time = now,
                                        !.before = master_collection,
                                        !.op = "store_analysis",
                                        !.fault = fault]
          /\ db_result' = store_analysis_in_db(Raises(fault), oid)
    /\ tool_result' = store_analysis_tool(db_result')
    /\ UNCHANGED <<master_collection, merged>>
    /\ UNCHANGED <<pipeVars, recVars, httpVars, liveVars, cmpVars, reqVars, rateVars>>

(***************************************************************************)
(* The get_master_surgeries tool: get_master_surgeries_tool calls          *)
(* get_master_surgeries_db, which reads the whole master collection with   *)
(* find(); raised says whether the store raises while it is read.          *)
(***************************************************************************)
\* a part of a string that is the JSON text of a value
JsonText(value) == [kind |-> "json", text |-> "", id |-> NoneId, value |-> value]

\* db_functions.py, lines 49-82: the list get_master_surgeries_db returns; the
\* `except Exception` of line 80 returns the empty list
get_master_surgeries_db(raised, coll) ==
    IF raised
    THEN <<>>
    ELSE [k \in 1 .. Len(coll) |->
             [id |-> StrOfId(coll[k]._id), surgery_type |-> coll[k].surgery_type,
              original_surgery_types |-> <<>>]]

\* tools/db_tools.py, lines 71-93: `if not surgeries:` is true of the empty list
get_master_surgeries_tool(surgeries) ==
    IF surgeries = <<>>
    THEN <<Text("No matching surgeries found in the master collection.")>>
    ELSE <<JsonText([total_surgeries |-> Len(surgeries), surgeries |-> surgeries])>>

GetMasterSurgeries(raised) ==
    /\ ncalls < MaxCalls
    /\ store_now' = store_now + 1
    /\ ncalls' = ncalls + 1
    /\ lastCall' = [NoCall EXCEPT !.time = store_now + 1,
                                  !.before = master_collection,
                                  !.op = "get_master_surgeries",
                                  !.fault = IF raised THEN "find" ELSE "none"]
    /\ db_result' = get_master_surgeries_db(raised, master_collection)
    /\ tool_result' = get_master_surgeries_tool(db_result')
    /\ UNCHANGED <<master_collection, merged, analysis_collection>>
    /\ UNCHANGED <<pipeVars, recVars, httpVars, liveVars, cmpVars, reqVars, rateVars>>

\* the master store alone, with every store operation going through
NextStore ==
    \E surgery_type \in SurgeryTypes, procedure_steps \in StepLists,
       summary \in Summaries, master_id \in MasterIds :
        AddToMasterSurgeries(surgery_type, procedure_steps, summary, master_id, "none")

\* procedure_steps arguments of the tool calls
ToolStepLists == {<<"s1">>}

\* the two tools, with a store that may raise
NextTools ==
    \/ \E surgery_type \in SurgeryTypes, procedure_steps \in ToolStepLists,
          summary \in Summaries, master_id \in MasterIds, fault \in StoreFaults :
           AddToMasterSurgeries(surgery_type, procedure_steps, summary, master_id, fault)
    \/ \E surgery_type \in SurgeryTypes, fault \in StoreFaults :
           StoreAnalysis(surgery_type, fault)
    \/ \E raised \in BOOLEAN : GetMasterSurgeries(raised)

(***************************************************************************)
(* The chunked analysis pipeline, app/vertex_ai_client.py.                 *)
(*                                                                         *)
(* Time is counted in ticks, TicksPerSecond of them to the second.  Time   *)
(* passes in time.sleep and while the model answers a request (a latency   *)
(* of 0 .. MaxLatency ticks); the statements in between take no time.      *)
(* The code reads the clock only to take time.time() - last_request_time,  *)
(* so the model keeps that difference, time_since_last, and not the two    *)
(* absolute times.                                                         *)
(***************************************************************************)
MaxChunks == 2
TicksPerSecond == 2
MaxLatency == 1

Seconds(s) == s * TicksPerSecond

\* RATE_LIMIT_DELAY = 1.0
RATE_LIMIT_DELAY == Seconds(1)
\* stop=stop_after_attempt(3)
stop_after_attempt == 3
\* max_retries = 3
max_retries == 3
\* len(result.strip()) > 20
MinResponseLength == 20
\* len() of the error segment analyze_video_chunk builds, with an empty str(e)
ErrorSegmentLength == 91
\* len() of the failure segment analyze_video builds, with an empty str(e)
FailedSegmentLength == 113
\* len() of generate_summary's placeholder, with an empty str(e)
PlaceholderLength == 51

\* the requests of a run are counted, and the time they span is measured, up to here
MaxCounted == MaxChunks * max_retries * stop_after_attempt + 1
SpanCap == (MaxCounted - 1) * RATE_LIMIT_DELAY

\* last_request_time = 0 at import: the first time.time() - last_request_time is
\* the time since the epoch, far more than RATE_LIMIT_DELAY
SinceEpoch == RATE_LIMIT_DELAY + Seconds(5)

\* wait_exponential(multiplier=1, min=4, max=60) after the attempt-th attempt:
\* max(min, min(multiplier * 2 ** (attempt - 1), max)) seconds
wait_exponential(attempt_number) ==
    Seconds(Max({4, Min({2 ^ (attempt_number - 1), 60})}))

\* lengths of the text the model answers with
ResponseLengths == {0, MinResponseLength, MinResponseLength + 1}

\* what a generate_content call does: answer with a text, raise ResourceExhausted,
\* or raise anything else
Outcomes ==
    [kind : {"text"}, length : ResponseLengths]
        \cup {[kind |-> "exhausted", length |-> 0], [kind |-> "error", length |-> 0]}

NoOutcome == [kind |-> "none", length |-> 0]

\* a faulty variant: rate_limit only stamps the time
rate_limit_no_sleep(time_since) == 0

\* rate_limit(), lines 28-35: how long it sleeps before it sets last_request_time
\* to the time it returns at; the request that follows starts then
rate_limit(time_since) ==
    IF time_since < RATE_LIMIT_DELAY THEN RATE_LIMIT_DELAY - time_since ELSE 0

\* the text of a chunk: what the model answered
Narrative(chunk, length) ==
    [kind |-> "narrative", chunk |-> chunk, reason |-> "", length |-> length]
\* lines 177-179: analyze_video_chunk's segment for an error
ErrorSegment(chunk, reason) ==
    [kind |-> "analysis_error", chunk |-> chunk, reason |-> reason,
     length |-> ErrorSegmentLength]
\* a faulty variant: the segment carries the time range of the chunk before
FailedSegmentOfChunkBefore(chunk, reason) ==
    [kind |-> "processing_failed", chunk |-> chunk - 1, reason |-> reason,
     length |-> FailedSegmentLength]

\* lines 264-266: analyze_video's segment for a chunk it gave up
FailedSegment(chunk, reason) ==
    [kind |-> "processing_failed", chunk |-> chunk, reason |-> reason,
     length |-> FailedSegmentLength]

\* line 249: `result and len(result.strip()) > 20`
IsValid(result) == result.length > MinResponseLength

NoOutput == [kind |-> "none", sections |-> <<>>, summary |-> <<>>]
\* lines 292-301
AnalysisFailed == [kind |-> "analysis_failed", sections |-> <<>>, summary |-> <<>>]
\* lines 303-321
PipelineError == [kind |-> "pipeline_error", sections |-> <<>>, summary |-> <<>>]
\* a faulty variant: the sections of the chunks that failed are left out
DocumentOfNarratives(sections, summary) ==
    [kind |-> "document",
     sections |-> SelectSeq(sections, LAMBDA section : section.kind = "narrative"),
     summary |-> IF summary.length > 0 THEN <<summary>> ELSE <<>>]

\* lines 281-290: the sections are results; the summary section is there when
\* `if summary:` holds
Document(sections, summary) ==
    [kind |-> "document", sections |-> sections,
     summary |-> IF summary.length > 0 THEN <<summary>> ELSE <<>>]

InitPipeline ==
    /\ pc = "start"
    /\ chunks = 0
    /\ i = 0
    /\ retry_count = 0
    /\ attempt = 1
    /\ calls = 0
    /\ results = <<>>
    /\ successful_results = <<>>
    /\ output = NoOutput
    /\ time_since_last = SinceEpoch
    /\ nreq = 0
    /\ lastGap = 0
    /\ span = 0
    /\ summary_outcome = NoOutcome

\* a request to the model starts when rate_limit has slept for `slept` ticks
Request(slept) ==
    /\ nreq' = Min({nreq + 1, MaxCounted})
    /\ lastGap' = IF nreq = 0 THEN 0 ELSE time_since_last + slept
    /\ span' = IF nreq = 0 THEN 0 ELSE Min({span + time_since_last + slept, SpanCap})

\* lines 275-301, reached when the for loop is over
AfterLoop(t, res, succ) ==
    /\ time_since_last' = t
    /\ results' = res
    /\ successful_results' = succ
    /\ IF succ # <<>>
       THEN pc' = "summary" /\ output' = output
       ELSE pc' = "done" /\ output' = AnalysisFailed
    /\ UNCHANGED <<chunks, i, retry_count, attempt>>

\* the for loop goes on to the next chunk, or ends
NextChunk(t, res, succ) ==
    IF i < chunks
    THEN /\ i' = i + 1
         /\ retry_count' = 0
         /\ attempt' = 1
         /\ time_since_last' = t
         /\ results' = res
         /\ successful_results' = succ
         /\ UNCHANGED <<pc, chunks, output>>
    ELSE AfterLoop(t, res, succ)

\* an except branch that sleeps and tries the chunk again without counting the
\* retry
OuterExceptUncounted(t, reason) ==
    /\ retry_count' = retry_count
    /\ attempt' = 1
    /\ time_since_last' = t + Seconds(5 * (retry_count + 1))
    /\ UNCHANGED <<pc, chunks, i, results, successful_results, output>>

\* lines 261-273: analyze_video's except branch, entered at time t
OuterExcept(t, reason) ==
    IF retry_count + 1 >= max_retries
    THEN NextChunk(t + Seconds(5), Append(results, FailedSegment(i, reason)),
                   successful_results)
    ELSE /\ retry_count' = retry_count + 1
         /\ attempt' = 1
         /\ time_since_last' = t + Seconds(5 * (retry_count + 1))
         /\ UNCHANGED <<pc, chunks, i, results, successful_results, output>>

\* lines 247-259: analyze_video_chunk returned result at time t
OuterResult(t, result) ==
    IF IsValid(result)
    THEN NextChunk(IF i < chunks THEN t + Seconds(2) ELSE t,
                   Append(results, result), Append(successful_results, result))
    ELSE OuterExcept(t, "invalid")

(***************************************************************************)
(* analyze_video up to its loop, lines 221-236: init_vertex_ai and         *)
(* split_video either raise (ok = FALSE), which the outer except turns     *)
(* into the pipeline error text, or give n chunks.                         *)
(***************************************************************************)
StartRun(ok, n) ==
    /\ pc = "start"
    /\ IF ~ok
       THEN /\ pc' = "done"
            /\ output' = PipelineError
            /\ UNCHANGED <<chunks, i>>
       ELSE /\ chunks' = n
            /\ IF n = 0
               THEN pc' = "done" /\ output' = AnalysisFailed /\ i' = i
               ELSE pc' = "chunk" /\ output' = output /\ i' = 1
    /\ UNCHANGED <<retry_count, attempt, calls, results, successful_results,
                   time_since_last, nreq, lastGap, span, summary_outcome>>
    /\ UNCHANGED <<storeVars, recVars, httpVars, liveVars, cmpVars, reqVars, rateVars>>

(***************************************************************************)
(* One attempt of analyze_video_chunk on chunk i, lines 155-179, with what *)
(* follows it up to the next request: tenacity's retry (lines 113-118) and *)
(* the body of analyze_video's while loop (lines 244-273).                 *)
(***************************************************************************)
ChunkAttempt(outcome, latency) ==
    /\ pc = "chunk"
    /\ UNCHANGED <<storeVars, recVars, httpVars, liveVars, cmpVars, reqVars, rateVars>>
    /\ LET t == latency
       IN /\ Request(rate_limit(time_since_last))
          /\ calls' = IF retry_count = 0 /\ attempt = 1 THEN 1 ELSE calls + 1
          /\ UNCHANGED summary_outcome
          /\ CASE outcome.kind = "text" ->
                    \* time.sleep(1.0); return response.text
                    OuterResult(t + Seconds(1), Narrative(i, outcome.length))
               [] outcome.kind = "exhausted" ->
                    \* time.sleep(5); raise
                    IF attempt < stop_after_attempt
                    THEN /\ attempt' = attempt + 1
                         /\ time_since_last' = t + Seconds(5) + wait_exponential(attempt)
                         /\ UNCHANGED <<pc, chunks, i, retry_count, results,
                                        successful_results, output>>
                    ELSE OuterExcept(t + Seconds(5), "exhausted")
               [] outcome.kind = "error" ->
                    \* return the error segment
                    OuterResult(t, ErrorSegment(i, "error"))

(***************************************************************************)
(* generate_summary, lines 181-208, and the composition of the document,   *)
(* lines 280-290.                                                          *)
(***************************************************************************)
GenerateSummary(outcome, latency) ==
    /\ pc = "summary"
    /\ LET summary == IF outcome.kind = "text"
                      THEN [kind |-> "summary", length |-> outcome.length]
                      ELSE [kind |-> "placeholder", length |-> PlaceholderLength]
       IN /\ Request(rate_limit(time_since_last))
          /\ time_since_last' = latency
          /\ output' = Document(results, summary)
          /\ summary_outcome' = outcome
          /\ pc' = "done"
    /\ UNCHANGED <<chunks, i, retry_count, attempt, calls, results, successful_results>>
    /\ UNCHANGED <<storeVars, recVars, httpVars, liveVars, cmpVars, reqVars, rateVars>>

NextPipeline ==
    \/ \E ok \in BOOLEAN, n \in 0 .. MaxChunks : StartRun(ok, n)
    \/ \E outcome \in Outcomes, latency \in 0 .. MaxLatency :
            ChunkAttempt(outcome, latency)
    \/ \E outcome \in Outcomes, latency \in 0 .. MaxLatency :
            GenerateSummary(outcome, latency)

(***************************************************************************)
(* The comparison, app/agent.py: Part 2 of COMPARISON_SURGERY_PROMPT, the  *)
(* procedure the comparison agent is told to follow: retrieve the master   *)
(* collection, find the matching record, and reconcile the steps.  The     *)
(* judgment "semantically equivalent" is the agent's own; here a text has  *)
(* a meaning, and two texts are equivalent when they mean the same.        *)
(***************************************************************************)
MaxMaster == 3
MaxCurrent == 2
MaxRecords == 2
\* how long a step lasts in the fresh analysis and in the master record, in seconds
CurrentStepSeconds == 5
MasterStepSeconds == 3

\* step descriptions; "A*" words step A differently
Texts == {"A", "A*", "B", "C"}
Meaning(text) == IF text = "A*" THEN "A" ELSE text

\* line 117: "a semantically equivalent step"
isEquivalent(a, b) == Meaning(a) = Meaning(b)

\* format_timestamp (vertex_ai_client.py, lines 106-111): HH:MM:SS as <<HH, MM, SS>>
format_timestamp(seconds) ==
    <<seconds \div 3600, (seconds % 3600) \div 60, seconds % 60>>

\* a list of steps "HH:MM:SS - HH:MM:SS : text", one after the other without a gap
StepsOf(texts, seconds) ==
    [k \in 1 .. Len(texts) |->
        [start |-> format_timestamp((k - 1) * seconds),
         end |-> format_timestamp(k * seconds),
         description |-> texts[k]]]

SeqsUpTo(S, n) == UNION {[1 .. m -> S] : m \in 0 .. n}

\* line 104 and lines 112-113: what the match looks at, in the fresh analysis and
\* in each record of the master collection
ComparedTypes == {"Hernia repair", "Appendectomy"}
MatchKeys == [surgery_type : ComparedTypes, summary : Summaries]
NoKeys == [surgery_type |-> "", summary |-> ""]

\* a faulty variant: with a collection that is not empty the agent always settles
\* on a record
MatchedByAnyRecord(keys, surgeries) ==
    IF surgeries = <<>>
    THEN "none"
    ELSE IF \E k \in 1 .. Len(surgeries) :
               isEquivalent(surgeries[k].surgery_type, keys.surgery_type)
         THEN "surgery_type"
         ELSE "summary"

\* lines 113 and 127: "by first comparing surgery_type and then summary"; how the
\* agent finds its record, "none" when no record is similar
MatchedBy(keys, surgeries) ==
    IF \E k \in 1 .. Len(surgeries) :
          isEquivalent(surgeries[k].surgery_type, keys.surgery_type)
    THEN "surgery_type"
    ELSE IF \E k \in 1 .. Len(surgeries) :
               isEquivalent(surgeries[k].summary, keys.summary)
         THEN "summary"
         ELSE "none"

\* the steps of current that are equivalent to step m
EquivalentsOf(m, current) ==
    {k \in 1 .. Len(current) : isEquivalent(m.description, current[k].description)}

\* a faulty variant: a master step counts as found only when its very text is in current
IsMissingExactText(m, current) ==
    \A k \in 1 .. Len(current) : current[k].description # m.description

\* lines 117-118: a master step with no equivalent step in current is missing
IsMissing(m, current) == EquivalentsOf(m, current) = {}

\* the should_occur_after values left to the agent where the prompt gives no rule:
\* any timestamp it has seen, or none
AnyAnchor(n, master, current) ==
    {format_timestamp(0), master[n - 1].end, <<>>}
        \cup {current[k].end : k \in 1 .. Len(current)}

\* a faulty variant: the end timestamp of the preceding step is read off the
\* master list
AnchorsFromMaster(n, master, current) ==
    IF n = 1
    THEN {format_timestamp(0)}
    ELSE {master[n - 1].end}

\* a faulty variant: without a preceding step the agent gives no timestamp
AnchorsFirstUnanchored(n, master, current) ==
    IF n = 1
    THEN {<<>>}
    ELSE IF EquivalentsOf(master[n - 1], current) # {}
         THEN {current[k].end : k \in EquivalentsOf(master[n - 1], current)}
         ELSE AnyAnchor(n, master, current)

\* lines 119-121: the should_occur_after values the prompt allows for master step n.
\* The first master step gets 00:00:00; otherwise the end timestamp of the
\* preceding master step as found in current.  When that step is in current more
\* than once the prompt does not say which to take; when it is not in current the
\* prompt gives no rule.
Anchors(n, master, current) ==
    IF n = 1
    THEN {format_timestamp(0)}
    ELSE IF EquivalentsOf(master[n - 1], current) # {}
         THEN {current[k].end : k \in EquivalentsOf(master[n - 1], current)}
         ELSE AnyAnchor(n, master, current)

\* line 122: one entry of missing_steps
MissingEntry(m, anchor) ==
    [missing_step |-> m.description, should_occur_after |-> anchor]

\* what the agent answers: nothing yet, the message of line 127, or the JSON
\* object of lines 123-126
NoAnswer == [kind |-> "none"]
NoSimilarData == [kind |-> "message", text |-> "no similar data found"]
ComparisonObject(current, master, missing) ==
    [kind |-> "object",
     current_procedure_steps |-> current,
     master_procedure_steps |-> master,
     missing_steps |-> missing]

InitReconcile ==
    /\ rec_pc = "idle"
    /\ fresh = NoKeys
    /\ master_surgeries = <<>>
    /\ matched_by = "none"
    /\ current_procedure_steps = <<>>
    /\ master_procedure_steps = <<>>
    /\ j = 0
    /\ missing_steps = <<>>
    /\ missing_from = <<>>
    /\ agent_output = NoAnswer

\* lines 104 and 112: the fresh analysis has its surgery_type and summary, and
\* get_master_surgeries_with_steps has handed over the master collection
GetMasterSurgeriesWithSteps(keys, surgeries) ==
    /\ rec_pc = "idle"
    /\ fresh' = keys
    /\ master_surgeries' = surgeries
    /\ rec_pc' = "match"
    /\ UNCHANGED <<matched_by, current_procedure_steps, master_procedure_steps, j,
                   missing_steps, missing_from, agent_output>>
    /\ UNCHANGED <<storeVars, pipeVars, httpVars, liveVars, cmpVars, reqVars, rateVars>>

\* lines 113, 114 and 127: the agent looks for its record.  Without one it answers
\* "no similar data found"; with one it goes on with that record alone.
FindMatch ==
    /\ rec_pc = "match"
    /\ matched_by' = MatchedBy(fresh, master_surgeries)
    /\ IF MatchedBy(fresh, master_surgeries) = "none"
       THEN /\ agent_output' = NoSimilarData
            /\ rec_pc' = "done"
            /\ UNCHANGED <<fresh, master_surgeries>>
       ELSE /\ agent_output' = agent_output
            /\ rec_pc' = "matched"
            /\ fresh' = NoKeys
            /\ master_surgeries' = <<>>
    /\ UNCHANGED <<current_procedure_steps, master_procedure_steps, j,
                   missing_steps, missing_from>>
    /\ UNCHANGED <<storeVars, pipeVars, httpVars, liveVars, cmpVars, reqVars, rateVars>>

\* line 116: a master record has matched; the two lists of steps are at hand
StartComparison(current_texts, master_texts) ==
    /\ rec_pc = "matched"
    /\ current_procedure_steps' = StepsOf(current_texts, CurrentStepSeconds)
    /\ master_procedure_steps' = StepsOf(master_texts, MasterStepSeconds)
    /\ j' = 1
    /\ missing_steps' = <<>>
    /\ missing_from' = <<>>
    /\ IF master_texts = <<>>
       THEN /\ rec_pc' = "done"
            /\ agent_output' =
                  ComparisonObject(StepsOf(current_texts, CurrentStepSeconds), <<>>, <<>>)
       ELSE /\ rec_pc' = "walk"
            /\ agent_output' = agent_output
    /\ UNCHANGED <<fresh, master_surgeries, matched_by>>
    /\ UNCHANGED <<storeVars, pipeVars, httpVars, liveVars, cmpVars, reqVars, rateVars>>

\* lines 117-126: the walk takes the next master step; after the last one the
\* agent answers with the JSON object
WalkStep(anchor) ==
    /\ rec_pc = "walk"
    /\ LET missing ==
              IF IsMissing(master_procedure_steps[j], current_procedure_steps)
              THEN Append(missing_steps, MissingEntry(master_procedure_steps[j], anchor))
              ELSE missing_steps
       IN /\ missing_steps' = missing
          /\ missing_from' =
                IF IsMissing(master_procedure_steps[j], current_procedure_steps)
                THEN Append(missing_from, j)
                ELSE missing_from
          /\ IF j = Len(master_procedure_steps)
             THEN /\ rec_pc' = "done"
                  /\ agent_output' = ComparisonObject(current_procedure_steps,
                                                      master_procedure_steps, missing)
             ELSE /\ rec_pc' = "walk"
                  /\ agent_output' = agent_output
    /\ j' = j + 1
    /\ UNCHANGED <<fresh, master_surgeries, matched_by,
                   current_procedure_steps, master_procedure_steps>>
    /\ UNCHANGED <<storeVars, pipeVars, httpVars, liveVars, cmpVars, reqVars, rateVars>>

NextReconcile ==
    \/ /\ rec_pc = "idle"
       /\ \E keys \in MatchKeys, surgeries \in SeqsUpTo(MatchKeys, MaxRecords) :
            GetMasterSurgeriesWithSteps(keys, surgeries)
    \/ FindMatch
    \/ /\ rec_pc = "matched"
       /\ \E current_texts \in SeqsUpTo(Texts, MaxCurrent),
             master_texts \in SeqsUpTo(Texts, MaxMaster) :
            StartComparison(current_texts, master_texts)
    \/ /\ rec_pc = "walk"
       /\ \E anchor \in Anchors(j, master_procedure_steps, current_procedure_steps) :
            WalkStep(anchor)

(***************************************************************************)
(* The HTTP endpoints, app/main.py.  A request is handled in one step; the *)
(* state keeps the last request, the answer it got, and whether the        *)
(* pipeline and the agent were invoked for it.                             *)
(***************************************************************************)
\* content types: video.content_type is None when the part has no Content-Type
ContentTypes ==
    {[major |-> "video", minor |-> "mp4"],
     [major |-> "application", minor |-> "octet-stream"],
     [major |-> "image", minor |-> "png"],
     [major |-> "None", minor |-> ""]}

\* file names, stem and extension
Filenames ==
    {[stem |-> "op", ext |-> ".MP4"],
     [stem |-> "op", ext |-> ".mov"],
     [stem |-> "notes", ext |-> ".txt"]}

\* len(video_content)
BodyLengths == {0, 1}

\* video.content_type.startswith('video/'); None has no startswith
HasStartswith(content_type) == content_type.major # "None"
StartsWithVideo(content_type) == content_type.major = "video"

\* video.filename.lower()
Lower(ext) == IF ext = ".MP4" THEN ".mp4" ELSE ext

\* .endswith(('.mp4', '.avi', '.mov', '.mkv'))
EndsWithVideoExtension(filename) == Lower(filename.ext) \in {".mp4", ".avi", ".mov", ".mkv"}

\* how the body of a try statement ends
Returns(body) == [kind |-> "return", class |-> "", status |-> 200, body |-> body]
RaisesException(class, status) ==
    [kind |-> "raise", class |-> class, status |-> status, body |-> "detail"]

\* `except base`: HTTPException and AttributeError are subclasses of Exception
Catches(base, outcome) ==
    /\ outcome.kind = "raise"
    /\ (base = "Exception" \/ outcome.class = base)

\* what the client gets: the returned value with 200, or the status of the
\* HTTPException that left the handler
Response(outcome) == [status |-> outcome.status, body |-> outcome.body]

\* lines 103-105: get_surgery_steps has `except Exception` alone
get_surgery_steps_except(outcome) ==
    IF Catches("Exception", outcome)
    THEN RaisesException("HTTPException", 500)
    ELSE outcome

\* lines 150-154 and 200-204: `except HTTPException: raise`, then `except Exception`
video_except(outcome) ==
    IF Catches("HTTPException", outcome)
    THEN outcome
    ELSE IF Catches("Exception", outcome)
         THEN RaisesException("HTTPException", 500)
         ELSE outcome

\* lines 88-102: the body of get_surgery_steps's try statement
get_surgery_steps_try(surgery_type, master_surgeries_list, db_raises) ==
    IF db_raises
    THEN RaisesException("Exception", 0)
    ELSE IF \E k \in 1 .. Len(master_surgeries_list) :
               master_surgeries_list[k].surgery_type = surgery_type
         THEN Returns("steps")
         ELSE RaisesException("HTTPException", 404)

\* a faulty variant: the file is judged by its content type alone
AcceptedByContentTypeOnly(content_type, filename) == StartsWithVideo(content_type)

\* lines 115 and 165: the upload passes the validation
Accepted(content_type, filename) ==
    StartsWithVideo(content_type) \/ EndsWithVideoExtension(filename)

\* what vertex_analyze_video hands back, lines 131 and 181: the composed document,
\* or the text of one of its two failures; it is a str in every case
RawAnalyses == {"document", "analysis_failed", "pipeline_error"}

\* lines 114-149 and 164-199: the body of the try statement of analyze_video and
\* of compare_video, and whether it got to the pipeline and to the agent; the
\* raw analysis goes into the agent's input and into the answer as it is
video_try(content_type, filename, length, raw_analysis, agent_raises) ==
    IF ~HasStartswith(content_type)
    THEN [outcome |-> RaisesException("AttributeError", 0),
          pipeline |-> FALSE, agent |-> FALSE]
    ELSE IF ~Accepted(content_type, filename)
    THEN [outcome |-> RaisesException("HTTPException", 400),
          pipeline |-> FALSE, agent |-> FALSE]
    ELSE IF length = 0
    THEN [outcome |-> RaisesException("HTTPException", 400),
          pipeline |-> FALSE, agent |-> FALSE]
    ELSE IF agent_raises
    THEN [outcome |-> RaisesException("Exception", 0),
          pipeline |-> TRUE, agent |-> TRUE]
    ELSE [outcome |-> Returns(raw_analysis), pipeline |-> TRUE, agent |-> TRUE]

NoRequest ==
    [endpoint |-> "", surgery_type |-> "", master_surgeries |-> <<>>,
     db_raises |-> FALSE, content_type |-> [major |-> "None", minor |-> ""],
     filename |-> [stem |-> "", ext |-> ""], length |-> 0, raw_analysis |-> "",
     agent_raises |-> FALSE]

InitHttp ==
    /\ http_request = NoRequest
    /\ http_response = [status |-> 0, body |-> ""]
    /\ pipeline_invoked = FALSE
    /\ agent_invoked = FALSE

\* GET /master-surgeries/steps, lines 84-105; get_master_surgeries_with_steps_db
\* returns master_surgeries_list or raises
GetSurgerySteps(surgery_type, master_surgeries_list, db_raises) ==
    /\ http_request' = [NoRequest EXCEPT !.endpoint = "/master-surgeries/steps",
                                         !.surgery_type = surgery_type,
                                         !.master_surgeries = master_surgeries_list,
                                         !.db_raises = db_raises]
    /\ http_response' =
          Response(get_surgery_steps_except(
              get_surgery_steps_try(surgery_type, master_surgeries_list, db_raises)))
    /\ pipeline_invoked' = FALSE
    /\ agent_invoked' = FALSE
    /\ UNCHANGED <<storeVars, pipeVars, recVars, liveVars, cmpVars, reqVars, rateVars>>

\* POST /analyze-video and POST /compare-video, lines 107-154 and 157-204: the
\* two handlers differ in the agent they invoke
PostVideo(endpoint, content_type, filename, length, raw_analysis, agent_raises) ==
    /\ http_request' = [NoRequest EXCEPT !.endpoint = endpoint,
                                         !.content_type = content_type,
                                         !.filename = filename,
                                         !.length = length,
                                         !.raw_analysis = raw_analysis,
                                         !.agent_raises = agent_raises]
    /\ LET run == video_try(content_type, filename, length, raw_analysis, agent_raises)
       IN /\ http_response' = Response(video_except(run.outcome))
          /\ pipeline_invoked' = run.pipeline
          /\ agent_invoked' = run.agent
    /\ UNCHANGED <<storeVars, pipeVars, recVars, liveVars, cmpVars, reqVars, rateVars>>

NextHttp ==
    \/ \E surgery_type \in ComparedTypes,
          master_surgeries_list \in SeqsUpTo(MatchKeys, MaxRecords),
          db_raises \in BOOLEAN :
            GetSurgerySteps(surgery_type, master_surgeries_list, db_raises)
    \/ \E endpoint \in {"/analyze-video", "/compare-video"},
          content_type \in ContentTypes, filename \in Filenames,
          length \in BodyLengths, raw_analysis \in RawAnalyses,
          agent_raises \in BOOLEAN :
            PostVideo(endpoint, content_type, filename, length, raw_analysis,
                      agent_raises)

(***************************************************************************)
(* The live analysis, app/realtime_video_analyzer.py, driven by the        *)
(* endpoints /realtime-video/start and /realtime-video/stop of app/main.py.*)
(* The endpoints run on the event loop, one at a time; every               *)
(* start_capture that opens the device is a session and starts a capture   *)
(* thread and an analysis thread.  The threads of an earlier session that  *)
(* have not left their loops run on beside those of the later one.         *)
(* Whether a second has passed since the last frame was queued is left     *)
(* open: the capture thread may find it has or has not.                    *)
(***************************************************************************)
MaxSessions == 2
\* queue.Queue(maxsize=10)
maxsize == 10

Sessions == 1 .. MaxSessions

\* a faulty variant: the frame is put whether or not there is room
OfferUnbounded(queue, frame) == Append(queue, frame)

\* lines 150-157: put_nowait when the queue is not full; a full queue, found by
\* full() or by put_nowait raising queue.Full, leaves the frame out
Offer(queue, frame) == IF Len(queue) < maxsize THEN Append(queue, frame) ELSE queue

\* line 135: `while self.is_running and self.video_capture`
CaptureLoopCondition(running, capture) == running /\ capture # "None"

\* a faulty variant: the analysis loop does not look at the flag
AnalysisLoopForever(running) == TRUE

\* line 233: `while self.is_running`
AnalysisLoopCondition(running) == running

\* the frame the camera gives after frame: another one
NextFrame(frame) == IF frame = 1 THEN 2 ELSE 1

InitLive ==
    /\ is_running = FALSE
    /\ video_capture = "None"
    /\ device_open = FALSE
    /\ frame_queue = <<>>
    /\ current_frame = 0
    /\ dropped = FALSE
    /\ sessions = 0
    /\ capture_pc = [s \in Sessions |-> "unborn"]
    /\ analysis_pc = [s \in Sessions |-> "unborn"]
    /\ ctl_pc = "idle"
    /\ restarting = FALSE

\* main.py, lines 222-228: start_realtime_analysis stops a capture that is running
\* (stop_capture, line 118, clears the flag first) and then starts one
BeginStart ==
    /\ ctl_pc = "idle"
    /\ sessions < MaxSessions
    /\ IF is_running
       THEN /\ is_running' = FALSE
            /\ ctl_pc' = "join"
       ELSE /\ is_running' = is_running
            /\ ctl_pc' = "start_capture"
    /\ restarting' = TRUE
    /\ UNCHANGED <<video_capture, device_open, frame_queue, current_frame, dropped,
                   sessions, capture_pc, analysis_pc>>
    /\ UNCHANGED <<storeVars, pipeVars, recVars, httpVars, cmpVars, reqVars, rateVars>>

\* main.py, line 244, and line 118: stop_realtime_analysis calls stop_capture,
\* which clears the flag
BeginStop ==
    /\ ctl_pc = "idle"
    /\ is_running' = FALSE
    /\ ctl_pc' = "join"
    /\ restarting' = FALSE
    /\ UNCHANGED <<video_capture, device_open, frame_queue, current_frame, dropped,
                   sessions, capture_pc, analysis_pc>>
    /\ UNCHANGED <<storeVars, pipeVars, recVars, httpVars, cmpVars, reqVars, rateVars>>

\* lines 121-131: capture_thread.join(timeout=1.0) and
\* analysis_thread.join(timeout=1.0) return, the threads gone or not; the device
\* is released and stop_capture returns
JoinAndRelease ==
    /\ ctl_pc = "join"
    /\ device_open' = IF video_capture # "None" THEN FALSE ELSE device_open
    /\ video_capture' = "None"
    /\ ctl_pc' = IF restarting THEN "start_capture" ELSE "idle"
    /\ restarting' = FALSE
    /\ UNCHANGED <<is_running, frame_queue, current_frame, dropped, sessions,
                   capture_pc, analysis_pc>>
    /\ UNCHANGED <<storeVars, pipeVars, recVars, httpVars, cmpVars, reqVars, rateVars>>

\* lines 85-114: start_capture; isOpened says whether the device opened
StartCapture(isOpened) ==
    /\ ctl_pc = "start_capture"
    /\ video_capture' = "VideoCapture"
    /\ IF isOpened
       THEN /\ device_open' = TRUE
            /\ frame_queue' = <<>>
            /\ is_running' = TRUE
            /\ sessions' = sessions + 1
            /\ capture_pc' = [capture_pc EXCEPT ![sessions + 1] = "loop"]
            /\ analysis_pc' = [analysis_pc EXCEPT ![sessions + 1] = "top"]
       ELSE /\ device_open' = FALSE
            /\ UNCHANGED <<frame_queue, is_running, sessions, capture_pc, analysis_pc>>
    /\ ctl_pc' = "idle"
    /\ restarting' = FALSE
    /\ UNCHANGED <<current_frame, dropped>>
    /\ UNCHANGED <<storeVars, pipeVars, recVars, httpVars, cmpVars, reqVars, rateVars>>

\* lines 135-164: the capture thread of session s tests its loop condition and,
\* when it holds, goes through one round of the loop.  Without an open device
\* read() returns no frame, and the round ends; with one, ret says whether a frame
\* came, and due whether frame_interval has passed since the last frame was queued.
CaptureRound(s, ret, due) ==
    /\ capture_pc[s] = "loop"
    /\ IF ~CaptureLoopCondition(is_running, video_capture)
       THEN /\ capture_pc' = [capture_pc EXCEPT ![s] = "exited"]
            /\ UNCHANGED <<current_frame, frame_queue, dropped>>
       ELSE /\ capture_pc' = capture_pc
            /\ IF device_open /\ ret
               THEN /\ current_frame' = NextFrame(current_frame)
                    /\ IF due
                       THEN /\ frame_queue' = Offer(frame_queue, "frame")
                            /\ dropped' = (Len(frame_queue) >= maxsize)
                       ELSE /\ frame_queue' = frame_queue
                            /\ dropped' = FALSE
               ELSE /\ dropped' = FALSE
                    /\ UNCHANGED <<current_frame, frame_queue>>
    /\ UNCHANGED <<is_running, video_capture, device_open, sessions, analysis_pc,
                   ctl_pc, restarting>>
    /\ UNCHANGED <<storeVars, pipeVars, recVars, httpVars, cmpVars, reqVars, rateVars>>

\* line 233: the analysis thread of session s tests its loop condition
AnalysisTop(s) ==
    /\ analysis_pc[s] = "top"
    /\ analysis_pc' = [analysis_pc EXCEPT ![s] =
                          IF AnalysisLoopCondition(is_running) THEN "get" ELSE "exited"]
    /\ UNCHANGED <<is_running, video_capture, device_open, frame_queue, current_frame,
                   dropped, sessions, capture_pc, ctl_pc, restarting>>
    /\ UNCHANGED <<storeVars, pipeVars, recVars, httpVars, cmpVars, reqVars, rateVars>>

\* lines 236-240: frame_queue.get(timeout=0.5) gives a frame, or raises queue.Empty
AnalysisGet(s) ==
    /\ analysis_pc[s] = "get"
    /\ IF frame_queue # <<>>
       THEN /\ frame_queue' = Tail(frame_queue)
            /\ analysis_pc' = [analysis_pc EXCEPT ![s] = "process"]
       ELSE /\ frame_queue' = frame_queue
            /\ analysis_pc' = [analysis_pc EXCEPT ![s] = "top"]
    /\ UNCHANGED <<is_running, video_capture, device_open, current_frame, dropped,
                   sessions, capture_pc, ctl_pc, restarting>>
    /\ UNCHANGED <<storeVars, pipeVars, recVars, httpVars, cmpVars, reqVars, rateVars>>

\* lines 243-313: the frame is analysed and the round ends
AnalysisProcess(s) ==
    /\ analysis_pc[s] = "process"
    /\ analysis_pc' = [analysis_pc EXCEPT ![s] = "top"]
    /\ UNCHANGED <<is_running, video_capture, device_open, frame_queue, current_frame,
                   dropped, sessions, capture_pc, ctl_pc, restarting>>
    /\ UNCHANGED <<storeVars, pipeVars, recVars, httpVars, cmpVars, reqVars, rateVars>>

\* the steps of the capture thread and of the analysis thread of session s
CaptureThread(s) == \E ret \in BOOLEAN, due \in BOOLEAN : CaptureRound(s, ret, due)

AnalysisThread(s) == AnalysisTop(s) \/ AnalysisGet(s) \/ AnalysisProcess(s)

NextLive ==
    \/ BeginStart
    \/ BeginStop
    \/ JoinAndRelease
    \/ \E isOpened \in BOOLEAN : StartCapture(isOpened)
    \/ \E s \in Sessions, ret \in BOOLEAN, due \in BOOLEAN : CaptureRound(s, ret, due)
    \/ \E s \in Sessions : AnalysisTop(s)
    \/ \E s \in Sessions : AnalysisGet(s)
    \/ \E s \in Sessions : AnalysisProcess(s)

\* every thread gets to run, every wait of the threads is bounded (time.sleep,
\* get(timeout=0.5)), and so is every wait of stop_capture (join(timeout=1.0))
FairLive ==
    /\ WF_liveVars(JoinAndRelease)
    /\ \A s \in Sessions :
          /\ WF_liveVars(CaptureThread(s))
          /\ WF_liveVars(AnalysisThread(s))


(***************************************************************************)
(* The comparison that the live analysis starts beside its frames:         *)
(* analyze_frames_from_queue from the analysed frame on, and               *)
(* _run_comparison_agent (app/realtime_video_analyzer.py).                 *)
(* A start_capture that follows a stop_capture whose join timed out, the   *)
(* analysis thread being inside analyze_frame, leaves that thread running  *)
(* beside the new one: both work on the same analyzer object.  Frames are  *)
(* taken to be there whenever a thread asks for one.  Time is kept as the  *)
(* differences the code computes, and passes in steps of TickSeconds; the  *)
(* few statements between reading the clock at line 271 and starting the   *)
(* comparison thread at line 295 take no time.                             *)
(***************************************************************************)
MaxAnalysisThreads == 2
MaxInFlight == 2
TickSeconds == 5
\* self.comparison_rate_limit = 10.0
comparison_rate_limit == 10
\* RATE_LIMIT_DELAY = 1.0 of app/realtime_video_analyzer.py
LIVE_RATE_LIMIT_DELAY == 1
\* frame_count % 5 == 0
ComparisonEvery == 5
\* len(self.accumulated_steps) >= 3
NeededSteps == 3

AnalysisThreads == 1 .. MaxAnalysisThreads

\* what the comparison agent's "output" can be: an empty text, or a report
AgentOutputs == {"", "report"}

NoneResult == [kind |-> "None", text |-> ""]
Str(text) == [kind |-> "str", text |-> text]
\* the truth value Python gives an object: None and the empty str are false
Bool(object) == object.kind = "str" /\ object.text # ""

\* the dict that goes into result_queue; cmp is absent when the dict has no
\* 'comparison_result'
Absent == [kind |-> "absent", text |-> ""]
Result(cmp) == [comparison_result |-> cmp]

\* a faulty variant: a dict goes into the queue only with a 'comparison_result'
PutWithComparisonOnly(queue, result) ==
    IF result.comparison_result.kind = "absent"
    THEN queue
    ELSE [last |-> result, puts |-> 1 - queue.puts]

\* self.result_queue, an unbounded queue.Queue, is kept as the dict last put into
\* it and the number of puts modulo 2; Put is its put()
EmptyQueue == [last |-> Result(NoneResult), puts |-> 0]
Put(queue, result) == [last |-> result, puts |-> 1 - queue.puts]

\* lines 272-276
ShouldRunComparison(count, steps, since) ==
    /\ count % ComparisonEvery = 0
    /\ steps >= NeededSteps
    /\ since >= comparison_rate_limit

\* a faulty variant: what a failed comparison leaves is cached too
CachedAfterAnyOutcome(cache, outcome) ==
    IF outcome.kind = "returns" THEN Str(outcome.text) ELSE Str("")

\* lines 322-341: self.last_comparison_result after the comparison ended; only
\* an invoke that returned reaches line 341
CachedAfter(cache, outcome) ==
    IF outcome.kind = "returns" THEN Str(outcome.text) ELSE cache

\* what comparison_surgery.invoke, retried as lines 322-335 retry it, ends with
AgentOutcomes == [kind : {"returns"}, text : AgentOutputs] \cup {[kind |-> "raises", text |-> ""]}

InitCompare ==
    /\ loop_pc = [t \in AnalysisThreads |-> IF t = 1 THEN "frame" ELSE "unborn"]
    /\ frame_count = [t \in AnalysisThreads |-> 0]
    /\ accumulated_steps = 0
    /\ should_run_comparison = [t \in AnalysisThreads |-> FALSE]
    /\ since_comparison_call = comparison_rate_limit
    /\ since_request = LIVE_RATE_LIMIT_DELAY
    /\ last_comparison_result = NoneResult
    /\ in_flight = 0
    /\ result_queue = EmptyQueue
    /\ start_gap = comparison_rate_limit
    /\ followed = "none"
    /\ timeline = [now |-> 0, accumulated_steps |-> <<>>]

\* time passes
Tick ==
    /\ \A t \in AnalysisThreads : loop_pc[t] # "decide"
    /\ since_comparison_call' = Min({comparison_rate_limit, since_comparison_call + TickSeconds})
    /\ since_request' = Min({LIVE_RATE_LIMIT_DELAY, since_request + TickSeconds})
    /\ UNCHANGED <<loop_pc, frame_count, accumulated_steps, should_run_comparison,
                   last_comparison_result, in_flight, result_queue,
                   start_gap>>
    /\ UNCHANGED <<storeVars, pipeVars, recVars, httpVars, liveVars, reqVars, rateVars>>

\* main.py lines 224-228 with lines 96-108: the start endpoint stops and starts the
\* capture while thread t is inside analyze_frame; result_queue is emptied and
\* another analysis thread starts
RestartBeside(t) ==
    /\ loop_pc[t] = "request"
    /\ \E u \in AnalysisThreads :
          /\ loop_pc[u] = "unborn"
          /\ \A v \in AnalysisThreads : loop_pc[v] = "unborn" => u <= v
          /\ loop_pc' = [loop_pc EXCEPT ![u] = "frame"]
    /\ result_queue' = EmptyQueue
    /\ UNCHANGED <<frame_count, accumulated_steps, should_run_comparison,
                   since_comparison_call, since_request, last_comparison_result,
                   in_flight, start_gap>>
    /\ UNCHANGED <<storeVars, pipeVars, recVars, httpVars, liveVars, reqVars, rateVars>>

\* lines 236-218: thread t gets a frame and analyze_frame goes through
\* rate_limit, which returns once LIVE_RATE_LIMIT_DELAY has passed since the last
\* request; the request to the model starts
BeginAnalyzeFrame(t) ==
    /\ loop_pc[t] = "frame"
    /\ since_request >= LIVE_RATE_LIMIT_DELAY
    /\ since_request' = 0
    /\ loop_pc' = [loop_pc EXCEPT ![t] = "request"]
    /\ UNCHANGED <<frame_count, accumulated_steps, should_run_comparison,
                   since_comparison_call, last_comparison_result, in_flight,
                   result_queue, start_gap>>
    /\ UNCHANGED <<storeVars, pipeVars, recVars, httpVars, liveVars, reqVars, rateVars>>

\* lines 219-276: the model answers or the request fails, the step is appended,
\* and the thread reads the clock and finds whether the comparison should run
EndAnalyzeFrame(t) ==
    /\ loop_pc[t] = "request"
    /\ accumulated_steps' = Min({NeededSteps, accumulated_steps + 1})
    /\ should_run_comparison' = [should_run_comparison EXCEPT ![t] =
          ShouldRunComparison(frame_count[t], accumulated_steps', since_comparison_call)]
    /\ loop_pc' = [loop_pc EXCEPT ![t] = "decide"]
    /\ UNCHANGED <<frame_count, since_comparison_call, since_request,
                   last_comparison_result, in_flight, result_queue,
                   start_gap>>
    /\ UNCHANGED <<storeVars, pipeVars, recVars, httpVars, liveVars, reqVars, rateVars>>

\* lines 278-299: the comparison is to run; the time is noted, the result goes out
\* with the cached comparison if there is one, and the comparison thread starts
StartComparisonAgent(t) ==
    /\ loop_pc[t] = "decide"
    /\ should_run_comparison[t]
    /\ in_flight < MaxInFlight
    /\ since_comparison_call' = 0
    /\ result_queue' = IF Bool(last_comparison_result)
                       THEN Put(result_queue, Result(last_comparison_result))
                       ELSE result_queue
    /\ in_flight' = in_flight + 1
    /\ start_gap' = since_comparison_call
    /\ frame_count' = [frame_count EXCEPT ![t] = (@ + 1) % ComparisonEvery]
    /\ should_run_comparison' = [should_run_comparison EXCEPT ![t] = FALSE]
    /\ loop_pc' = [loop_pc EXCEPT ![t] = "frame"]
    /\ UNCHANGED <<accumulated_steps, since_request, last_comparison_result>>
    /\ UNCHANGED <<storeVars, pipeVars, recVars, httpVars, liveVars, reqVars, rateVars>>

\* lines 300-305: no comparison for this frame; the result goes out as it is
PutBasicResult(t) ==
    /\ loop_pc[t] = "decide"
    /\ ~should_run_comparison[t]
    /\ result_queue' = Put(result_queue, Result(Absent))
    /\ frame_count' = [frame_count EXCEPT ![t] = (@ + 1) % ComparisonEvery]
    /\ loop_pc' = [loop_pc EXCEPT ![t] = "frame"]
    /\ UNCHANGED <<accumulated_steps, should_run_comparison, since_comparison_call,
                   since_request, last_comparison_result, in_flight,
                   start_gap>>
    /\ UNCHANGED <<storeVars, pipeVars, recVars, httpVars, liveVars, reqVars, rateVars>>

\* lines 315-372: a comparison thread ends.  An invoke that returned is cached and
\* published; after one that raised, the cached comparison is published if there
\* is one, and else the result as it is
RunComparisonAgent(outcome) ==
    /\ in_flight > 0
    /\ in_flight' = in_flight - 1
    /\ last_comparison_result' = CachedAfter(last_comparison_result, outcome)
    /\ result_queue' = Put(result_queue,
          IF outcome.kind = "returns" THEN Result(Str(outcome.text))
          ELSE IF Bool(last_comparison_result) THEN Result(last_comparison_result)
          ELSE Result(Absent))
    /\ UNCHANGED <<loop_pc, frame_count, accumulated_steps, should_run_comparison,
                   since_comparison_call, since_request, start_gap>>
    /\ UNCHANGED <<storeVars, pipeVars, recVars, httpVars, liveVars, reqVars, rateVars>>

\* the actions above leave `followed` and `timeline` to the specification that
\* uses them: here no frame is followed and the steps are only counted
NextCompare ==
    \/ Tick /\ UNCHANGED <<followed, timeline>>
    \/ \E t \in AnalysisThreads : RestartBeside(t) /\ UNCHANGED <<followed, timeline>>
    \/ \E t \in AnalysisThreads : BeginAnalyzeFrame(t) /\ UNCHANGED <<followed, timeline>>
    \/ \E t \in AnalysisThreads : EndAnalyzeFrame(t) /\ UNCHANGED <<followed, timeline>>
    \/ \E t \in AnalysisThreads :
          StartComparisonAgent(t) /\ UNCHANGED <<followed, timeline>>
    \/ \E t \in AnalysisThreads : PutBasicResult(t) /\ UNCHANGED <<followed, timeline>>
    \/ \E outcome \in AgentOutcomes :
          RunComparisonAgent(outcome) /\ UNCHANGED <<followed, timeline>>

(***************************************************************************)
(* One frame on its way to result_queue.  The analysis thread of a capture *)
(* works as above; of the frames it dequeues one at a time is followed     *)
(* from frame_queue.get to the put() that carries its timestamp, analysis  *)
(* and procedure_step: the put of line 283 or 301 in the analysis thread,  *)
(* or the put of its comparison thread, lines 355, 367 and 372.  The       *)
(* threads get to run, and comparison_surgery.invoke returns or raises.    *)
(***************************************************************************)
FirstThread == 1

\* a put() went through: result_queue counts one more
PutDone == result_queue'.puts # result_queue.puts

\* frame_queue.get hands a frame to the analysis thread; it is followed, or not,
\* when no frame is on its way
DequeueFrame ==
    /\ BeginAnalyzeFrame(FirstThread)
    /\ IF followed \in {"analysis", "comparison"}
       THEN UNCHANGED followed
       ELSE followed' \in {"none", "analysis"}
    /\ UNCHANGED timeline

AnalyzeDequeued == EndAnalyzeFrame(FirstThread) /\ UNCHANGED <<followed, timeline>>

\* lines 278-299 for the frame under analysis
HandToComparison ==
    /\ StartComparisonAgent(FirstThread)
    /\ followed' = IF followed # "analysis" THEN followed
                   ELSE IF PutDone THEN "put_with_cached" ELSE "comparison"
    /\ UNCHANGED timeline

\* lines 300-301 for the frame under analysis
PublishBasic ==
    /\ PutBasicResult(FirstThread)
    /\ followed' = IF followed # "analysis" THEN followed
                   ELSE IF PutDone THEN "put_basic" ELSE "dropped"
    /\ UNCHANGED timeline

\* the comparison thread that holds the followed frame's result ends
EndFollowedComparison(outcome) ==
    /\ followed = "comparison"
    /\ RunComparisonAgent(outcome)
    /\ followed' = IF PutDone THEN "put_by_comparison" ELSE "dropped"
    /\ UNCHANGED timeline

\* another comparison thread ends
EndOtherComparison(outcome) ==
    /\ followed = "comparison" => in_flight > 1
    /\ RunComparisonAgent(outcome)
    /\ UNCHANGED <<followed, timeline>>

NextPublish ==
    \/ Tick /\ UNCHANGED <<followed, timeline>>
    \/ DequeueFrame
    \/ AnalyzeDequeued
    \/ HandToComparison
    \/ PublishBasic
    \/ \E outcome \in AgentOutcomes : EndFollowedComparison(outcome)
    \/ \E outcome \in AgentOutcomes : EndOtherComparison(outcome)

\* the analysis thread and the comparison threads get to run, and the requests
\* they wait for end
FairPublish ==
    /\ WF_cmpVars(AnalyzeDequeued)
    /\ WF_cmpVars(HandToComparison)
    /\ WF_cmpVars(PublishBasic)
    /\ WF_cmpVars(\E outcome \in AgentOutcomes : EndFollowedComparison(outcome))
    /\ WF_cmpVars(\E outcome \in AgentOutcomes : EndOtherComparison(outcome))


(***************************************************************************)
(* The procedure steps of the live analysis, lines 246-260 of              *)
(* analyze_frames_from_queue: each analysed frame gives a step             *)
(* "start - end : analysis", whose end is the wall clock at that moment    *)
(* and whose start is taken from the step appended before it.  A step is   *)
(* kept as its start, its end and nothing of its analysis.                 *)
(***************************************************************************)
MaxClock == 3
\* self.accumulated_steps[-20:]
KeptSteps == 20

\* datetime.now().strftime('%H:%M:%S')
strftime(now) == format_timestamp(now)

\* step.split(' - ')[0] of "start - end : analysis": what stands before the first
\* ' - ', the start
SplitFirst(step) == step.start

\* lines 249-254: the step of the frame analysed at `timestamp`
ProcedureStep(steps, timestamp) ==
    IF steps # <<>>
    THEN [start |-> SplitFirst(steps[Len(steps)]), end |-> timestamp]
    ELSE [start |-> format_timestamp(0), end |-> timestamp]

\* steps[-20:]
LastSteps(steps) ==
    IF Len(steps) > KeptSteps
    THEN SubSeq(steps, Len(steps) - KeptSteps + 1, Len(steps))
    ELSE steps

\* a second passes on the wall clock
ClockTick ==
    /\ timeline.now < MaxClock
    /\ timeline' = [timeline EXCEPT !.now = @ + 1]
    /\ UNCHANGED <<loop_pc, frame_count, accumulated_steps, should_run_comparison,
                   since_comparison_call, since_request, last_comparison_result,
                   in_flight, result_queue, start_gap, followed>>
    /\ UNCHANGED <<storeVars, pipeVars, recVars, httpVars, liveVars, reqVars, rateVars>>

\* lines 246-260: a frame has been analysed, its step is appended, and the last
\* KeptSteps steps are kept
AppendProcedureStep ==
    /\ timeline' = [timeline EXCEPT !.accumulated_steps =
          LastSteps(Append(@, ProcedureStep(@, strftime(timeline.now))))]
    /\ UNCHANGED <<loop_pc, frame_count, accumulated_steps, should_run_comparison,
                   since_comparison_call, since_request, last_comparison_result,
                   in_flight, result_queue, start_gap, followed>>
    /\ UNCHANGED <<storeVars, pipeVars, recVars, httpVars, liveVars, reqVars, rateVars>>

NextSteps ==
    \/ ClockTick
    \/ AppendProcedureStep

(***************************************************************************)
(* Analysis requests served side by side against one database, and a       *)
(* process that may crash.  A request stores the raw analysis              *)
(* (store_analysis, one insert_one) and then merges it into the master     *)
(* collection (add_to_master_surgeries without a master_id: one find_one,  *)
(* then one update_one or insert_one), app/mongodb_client.py.  Each store  *)
(* operation is one step: the database applies it to its document as a     *)
(* whole; the steps of different workers interleave freely.  A crash ends  *)
(* every request under way and leaves the database as it is.               *)
(***************************************************************************)
MaxWorkers == 2
MaxRequests == 3
MaxCrashes == 1

Workers == 1 .. MaxWorkers

\* the procedure_steps and the summary of request r
StepsOfRequest(r) == <<[request |-> r, step |-> 1], [request |-> r, step |-> 2]>>
SummaryOfRequest(r) == [request |-> r]

NoRequestServed == [number |-> 0, surgery_type |-> ""]
NoDocument == [_id |-> 0, procedure_steps |-> <<>>]

InitRequests ==
    /\ request_pc = [w \in Workers |-> "idle"]
    /\ request = [w \in Workers |-> NoRequestServed]
    /\ existing_doc = [w \in Workers |-> NoDocument]
    /\ requests = 0
    /\ crashes = 0
    /\ merged_requests = <<>>

\* a worker takes up a request; the agent is about to call the two tools
BeginRequest(w, surgery_type) ==
    /\ request_pc[w] = "idle"
    /\ requests < MaxRequests
    /\ requests' = requests + 1
    /\ request' = [request EXCEPT ![w] =
                      [number |-> requests + 1, surgery_type |-> surgery_type]]
    /\ request_pc' = [request_pc EXCEPT ![w] = "store_analysis"]
    /\ UNCHANGED <<existing_doc, crashes, merged_requests>>
    /\ UNCHANGED <<storeVars, pipeVars, recVars, httpVars, liveVars, cmpVars, rateVars>>

\* lines 42-48: store_analysis stamps the analysis and inserts it
InsertAnalysis(w) ==
    /\ request_pc[w] = "store_analysis"
    /\ store_now' = store_now + 1
    /\ analysis_collection' =
          Append(analysis_collection,
                 [_id |-> FreshId(analysis_collection),
                  surgery_type |-> request[w].surgery_type,
                  created_at |-> store_now'])
    /\ request_pc' = [request_pc EXCEPT ![w] = "find_one"]
    /\ UNCHANGED <<master_collection, ncalls, lastCall, merged, db_result, tool_result>>
    /\ UNCHANGED <<request, existing_doc, requests, crashes, merged_requests>>
    /\ UNCHANGED <<pipeVars, recVars, httpVars, liveVars, cmpVars, rateVars>>

\* line 84: find_one({"surgery_type": surgery_type}); the worker holds the document
\* as it was when found
FindOneBySurgeryType(w) ==
    /\ request_pc[w] = "find_one"
    /\ LET found == FindOne(MatchByType(master_collection, request[w].surgery_type))
       IN existing_doc' = [existing_doc EXCEPT ![w] =
                          IF found = 0
                          THEN NoDocument
                          ELSE [_id |-> master_collection[found]._id,
                                procedure_steps |-> master_collection[found].procedure_steps]]
    /\ request_pc' = [request_pc EXCEPT ![w] = "write"]
    /\ UNCHANGED <<request, requests, crashes, merged_requests>>
    /\ UNCHANGED <<storeVars, pipeVars, recVars, httpVars, liveVars, cmpVars, rateVars>>

\* lines 86-111: `if existing`: all_steps is built from what find_one returned, and
\* update_one sets summary, procedure_steps and last_updated of the document that
\* has the _id
UpdateOne(w) ==
    /\ request_pc[w] = "write"
    /\ existing_doc[w] # NoDocument
    /\ store_now' = store_now + 1
    /\ LET k == FindOne(MatchById(master_collection, existing_doc[w]._id))
       IN /\ master_collection' =
                [master_collection EXCEPT ![k] =
                    UpdatedDoc([@ EXCEPT !.procedure_steps = existing_doc[w].procedure_steps],
                               StepsOfRequest(request[w].number),
                               SummaryOfRequest(request[w].number), store_now')]
          /\ merged_requests' = [merged_requests EXCEPT ![k] = @ \cup {request[w].number}]
    /\ request_pc' = [request_pc EXCEPT ![w] = "idle"]
    /\ request' = [request EXCEPT ![w] = NoRequestServed]
    /\ existing_doc' = [existing_doc EXCEPT ![w] = NoDocument]
    /\ UNCHANGED <<analysis_collection, ncalls, lastCall, merged, db_result, tool_result>>
    /\ UNCHANGED <<requests, crashes>>
    /\ UNCHANGED <<pipeVars, recVars, httpVars, liveVars, cmpVars, rateVars>>

\* lines 112-130: no document was found; insert_one stores a new one
InsertOne(w) ==
    /\ request_pc[w] = "write"
    /\ existing_doc[w] = NoDocument
    /\ store_now' = store_now + 1
    /\ master_collection' =
          Append(master_collection,
                 NewDoc(FreshId(master_collection), request[w].surgery_type,
                        StepsOfRequest(request[w].number),
                        SummaryOfRequest(request[w].number), store_now'))
    /\ merged_requests' = Append(merged_requests, {request[w].number})
    /\ request_pc' = [request_pc EXCEPT ![w] = "idle"]
    /\ request' = [request EXCEPT ![w] = NoRequestServed]
    /\ UNCHANGED <<analysis_collection, ncalls, lastCall, merged, db_result, tool_result>>
    /\ UNCHANGED <<existing_doc, requests, crashes>>
    /\ UNCHANGED <<pipeVars, recVars, httpVars, liveVars, cmpVars, rateVars>>

\* the process dies: the requests under way end where they are
Crash ==
    /\ crashes < MaxCrashes
    /\ \E w \in Workers : request_pc[w] # "idle"
    /\ crashes' = crashes + 1
    /\ request_pc' = [w \in Workers |-> "idle"]
    /\ request' = [w \in Workers |-> NoRequestServed]
    /\ existing_doc' = [w \in Workers |-> NoDocument]
    /\ UNCHANGED <<requests, merged_requests>>
    /\ UNCHANGED <<storeVars, pipeVars, recVars, httpVars, liveVars, cmpVars, rateVars>>

NextRequests ==
    \/ \E w \in Workers, surgery_type \in ComparedTypes : BeginRequest(w, surgery_type)
    \/ \E w \in Workers : InsertAnalysis(w)
    \/ \E w \in Workers : FindOneBySurgeryType(w)
    \/ \E w \in Workers : UpdateOne(w)
    \/ \E w \in Workers : InsertOne(w)
    \/ Crash

(***************************************************************************)
(* The two rate limiters.  app/vertex_ai_client.py has a module variable   *)
(* last_request_time and a function rate_limit that analyze_video_chunk    *)
(* and generate_summary call before their request;                         *)
(* app/realtime_video_analyzer.py has a module variable last_request_time  *)
(* of its own and a method rate_limit that analyze_frame calls before its  *)
(* request.  Neither takes a lock: rate_limit reads the clock and its      *)
(* module's last_request_time, sleeps for what is missing, and writes      *)
(* last_request_time; the thread then sends its request.  Thread 0 serves  *)
(* the analysis requests (the endpoint of app/main.py blocks the event     *)
(* loop, so they come one after the other), the threads from 1 are the     *)
(* analysis threads of the live analyzer, of which a restart can leave     *)
(* more than one alive.  Time is counted in ticks.                         *)
(***************************************************************************)
RequestThread == 0
RateThreads == {RequestThread} \cup AnalysisThreads

Modules == {"vertex_ai_client", "realtime_video_analyzer"}
ModuleOf(t) ==
    IF t = RequestThread THEN "vertex_ai_client" ELSE "realtime_video_analyzer"

\* RATE_LIMIT_DELAY of each module, in ticks
DelayOf(module) ==
    IF module = "vertex_ai_client"
    THEN RATE_LIMIT_DELAY
    ELSE Seconds(LIVE_RATE_LIMIT_DELAY)

\* the components that send requests to the model from thread t
ComponentsOf(t) == IF t = RequestThread THEN {"chunk", "summary"} ELSE {"frame"}

NoRequestYet == "none"

InitRate ==
    /\ rate_pc = [t \in RateThreads |-> "out"]
    /\ sleep_left = [t \in RateThreads |-> 0]
    /\ last_request_age = [module \in Modules |-> DelayOf(module)]
    /\ latest_request = [component |-> NoRequestYet, age |-> RATE_LIMIT_DELAY]
    /\ request_gap = [first |-> NoRequestYet, second |-> NoRequestYet,
                      gap |-> RATE_LIMIT_DELAY]

\* one tick passes
RateTick ==
    /\ last_request_age' =
          [module \in Modules |-> Min({DelayOf(module), last_request_age[module] + 1})]
    /\ latest_request' = [latest_request EXCEPT !.age = Min({RATE_LIMIT_DELAY, @ + 1})]
    /\ sleep_left' = [t \in RateThreads |-> Max({0, sleep_left[t] - 1})]
    /\ UNCHANGED <<rate_pc, request_gap>>
    /\ UNCHANGED <<storeVars, pipeVars, recVars, httpVars, liveVars, cmpVars, reqVars>>

\* rate_limit up to its time.sleep: the time since the last request is taken from
\* the module's last_request_time, and the thread sleeps when it is below
\* RATE_LIMIT_DELAY
ReadLastRequestTime(t) ==
    /\ rate_pc[t] = "out"
    /\ LET module == ModuleOf(t)
           since_last == last_request_age[module]
       IN  IF since_last < DelayOf(module)
           THEN /\ rate_pc' = [rate_pc EXCEPT ![t] = "sleep"]
                /\ sleep_left' =
                      [sleep_left EXCEPT ![t] = DelayOf(module) - since_last]
           ELSE /\ rate_pc' = [rate_pc EXCEPT ![t] = "write"]
                /\ UNCHANGED sleep_left
    /\ UNCHANGED <<last_request_age, latest_request, request_gap>>
    /\ UNCHANGED <<storeVars, pipeVars, recVars, httpVars, liveVars, cmpVars, reqVars>>

\* time.sleep returns
Wake(t) ==
    /\ rate_pc[t] = "sleep"
    /\ sleep_left[t] = 0
    /\ rate_pc' = [rate_pc EXCEPT ![t] = "write"]
    /\ UNCHANGED <<sleep_left, last_request_age, latest_request, request_gap>>
    /\ UNCHANGED <<storeVars, pipeVars, recVars, httpVars, liveVars, cmpVars, reqVars>>

\* the last line of rate_limit, last_request_time = time.time(), and the request
\* that the caller sends next
SendRequest(t, component) ==
    /\ rate_pc[t] = "write"
    /\ rate_pc' = [rate_pc EXCEPT ![t] = "out"]
    /\ last_request_age' = [last_request_age EXCEPT ![ModuleOf(t)] = 0]
    /\ request_gap' = [first |-> latest_request.component, second |-> component,
                       gap |-> latest_request.age]
    /\ latest_request' = [component |-> component, age |-> 0]
    /\ UNCHANGED sleep_left
    /\ UNCHANGED <<storeVars, pipeVars, recVars, httpVars, liveVars, cmpVars, reqVars>>

NextRate ==
    \/ RateTick
    \/ \E t \in RateThreads : ReadLastRequestTime(t)
    \/ \E t \in RateThreads : Wake(t)
    \/ \E t \in RateThreads :
          \E component \in ComponentsOf(t) : SendRequest(t, component)

Init ==
    /\ InitStore /\ InitPipeline /\ InitReconcile /\ InitHttp /\ InitLive
    /\ InitCompare /\ InitRequests /\ InitRate

SpecStore == Init /\ [][NextStore]_vars

SpecTools == Init /\ [][NextTools]_vars

SpecHttp == Init /\ [][NextHttp]_vars

SpecLive == Init /\ [][NextLive]_vars /\ FairLive

SpecPipeline == Init /\ [][NextPipeline]_vars

SpecReconcile == Init /\ [][NextReconcile]_vars

SpecCompare == Init /\ [][NextCompare]_vars

SpecPublish == Init /\ [][NextPublish]_vars /\ FairPublish

SpecSteps == Init /\ [][NextSteps]_vars

SpecRequests == Init /\ [][NextRequests]_vars

SpecRate == Init /\ [][NextRate]_vars

(***************************************************************************)
(* The claims about the master store, checked under SpecStore.             *)
(***************************************************************************)
Called == ncalls > 0

\* the documents the last call left as they were
Untouched(k) ==
    /\ k <= Len(master_collection)
    /\ master_collection[k] = lastCall.before[k]

\* C1: a call without master_id, for a surgery_type no document has, inserts
\* exactly one document: the documents there before stay as they were, the new one
\* has the given surgery_type, the given steps verbatim and the given summary, its
\* created_at equals its last_updated, and the call returns its id.
C1_CreateOnFreshType ==
    (/\ Called
     /\ ~Truthy(lastCall.master_id)
     /\ MatchByType(lastCall.before, lastCall.surgery_type) = {})
    => /\ Len(master_collection) = Len(lastCall.before) + 1
       /\ \A k \in 1 .. Len(lastCall.before) : Untouched(k)
       /\ LET doc == master_collection[Len(master_collection)]
          IN /\ doc.surgery_type = lastCall.surgery_type
             /\ doc.procedure_steps = lastCall.procedure_steps
             /\ doc.summary = lastCall.summary
             /\ doc.created_at = doc.last_updated
             /\ doc.created_at = lastCall.time
             /\ doc._id \notin IdsOf(lastCall.before)
             /\ lastCall.ret = StrOfId(doc._id)

\* C1's case: a second surgery type arrives, with steps, and no master_id
C1_Witness ==
    /\ Called
    /\ ~Truthy(lastCall.master_id)
    /\ MatchByType(lastCall.before, lastCall.surgery_type) = {}
    /\ lastCall.before # <<>>
    /\ Len(lastCall.procedure_steps) = 2

\* C2: the procedure_steps of every master document are the step lists of the calls
\* that resolved to it, concatenated in call order.
C2_StepsAreConcatenation ==
    /\ Len(merged) = Len(master_collection)
    /\ \A k \in 1 .. Len(master_collection) :
          master_collection[k].procedure_steps = merged[k]

\* C2's case: three calls resolved to one document, the second and the third with
\* steps of their own after those of the first
C2_Witness ==
    /\ ncalls = 3
    /\ Len(master_collection) = 1
    /\ master_collection[1].procedure_steps = <<"s2", "s3", "s1", "s2", "s3">>

\* C3: a call with a master_id that names an existing document merges into that
\* document and no other, creates none, and returns that document's id (the id the
\* master_id denotes, as str() writes it).
C3_ExplicitIdWins ==
    (/\ Called
     /\ Truthy(lastCall.master_id)
     /\ ObjectId(lastCall.master_id) \in IdsOf(lastCall.before))
    => /\ Len(master_collection) = Len(lastCall.before)
       /\ \A k \in 1 .. Len(lastCall.before) :
             IF lastCall.before[k]._id = ObjectId(lastCall.master_id)
             THEN /\ master_collection[k].procedure_steps =
                        lastCall.before[k].procedure_steps \o lastCall.procedure_steps
                  /\ master_collection[k].summary = lastCall.summary
                  /\ master_collection[k].surgery_type = lastCall.before[k].surgery_type
                  /\ master_collection[k]._id = lastCall.before[k]._id
             ELSE Untouched(k)
       /\ lastCall.ret = StrOfId(ObjectId(lastCall.master_id))

\* C3's case: the master_id names a document of another surgery_type, while a
\* document of the given surgery_type exists, and the call brings steps
C3_Witness ==
    /\ Called
    /\ Truthy(lastCall.master_id)
    /\ \E k \in 1 .. Len(lastCall.before) :
          /\ lastCall.before[k]._id = ObjectId(lastCall.master_id)
          /\ lastCall.before[k].surgery_type # lastCall.surgery_type
    /\ MatchByType(lastCall.before, lastCall.surgery_type) # {}
    /\ lastCall.procedure_steps # <<>>

\* C4: after a merge into an existing document its summary is the summary given
\* to the call and its last_updated is the time of the call.
C4_SummaryOverwritten ==
    (Called /\ lastCall.existing # 0)
    => /\ master_collection[lastCall.existing].summary = lastCall.summary
       /\ master_collection[lastCall.existing].last_updated = lastCall.time
       /\ lastCall.before[lastCall.existing].last_updated < lastCall.time

\* C4's case: the document had another summary before the merge
C4_Witness ==
    /\ Called
    /\ lastCall.existing # 0
    /\ lastCall.before[lastCall.existing].summary # lastCall.summary

(***************************************************************************)
(* The claims about the tools and a store that may raise, checked under    *)
(* SpecTools.                                                              *)
(***************************************************************************)
\* the texts a failure string begins with
ErrorMarkers == {"Error storing analysis: ", "Error adding to master surgeries: "}

BeginsWithErrorMarker(string) ==
    /\ string # <<>>
    /\ string[1].kind = "text"
    /\ string[1].text \in ErrorMarkers

Merging == Called /\ lastCall.op = "add_to_master_surgeries"

\* the last call did what a call without master_id does: it merged into the first
\* document of its surgery_type, or created a document when there was none, and
\* returned that document's id and no failure string
MergedByType ==
    /\ IF MatchByType(lastCall.before, lastCall.surgery_type) # {}
       THEN LET k == FindOne(MatchByType(lastCall.before, lastCall.surgery_type))
            IN /\ Len(master_collection) = Len(lastCall.before)
               /\ master_collection[k].procedure_steps =
                     lastCall.before[k].procedure_steps \o lastCall.procedure_steps
               /\ master_collection[k].summary = lastCall.summary
               /\ \A n \in 1 .. Len(lastCall.before) : n # k => Untouched(n)
               /\ lastCall.ret = StrOfId(lastCall.before[k]._id)
       ELSE /\ Len(master_collection) = Len(lastCall.before) + 1
            /\ \A n \in 1 .. Len(lastCall.before) : Untouched(n)
            /\ master_collection[Len(master_collection)].surgery_type =
                  lastCall.surgery_type
            /\ master_collection[Len(master_collection)].procedure_steps =
                  lastCall.procedure_steps
            /\ lastCall.ret = StrOfId(master_collection[Len(master_collection)]._id)
    /\ db_result = <<IdText(lastCall.ret)>>
    /\ ~BeginsWithErrorMarker(db_result)

\* C14: after a tool call during which a store operation raised, what the
\* db_functions call returned and what the tool handed to the agent both begin
\* with an error marker.
C14_StoreErrorBeginsWithMarker ==
    (Called /\ lastCall.fault # "none")
    => /\ BeginsWithErrorMarker(db_result)
       /\ BeginsWithErrorMarker(tool_result)

C16_StaleIdFallsBackToType ==
    (/\ Merging
     /\ lastCall.master_id.kind = "hex"
     /\ ObjectId(lastCall.master_id) \notin IdsOf(lastCall.before)
     /\ lastCall.fault = "none")
    => MergedByType

\* C16's case: two documents, of two surgery types; the master_id names neither,
\* and the call merges into the second, the one of its surgery_type
C16_Witness ==
    /\ Merging
    /\ lastCall.master_id.kind = "hex"
    /\ ObjectId(lastCall.master_id) \notin IdsOf(lastCall.before)
    /\ lastCall.fault = "none"
    /\ Len(lastCall.before) = 2
    /\ lastCall.existing = 2
    /\ Len(master_collection[2].procedure_steps) = 2

(***************************************************************************)
(* The claims about the chunked pipeline, checked under SpecPipeline.      *)
(***************************************************************************)
Done == pc = "done"

\* the chunks whose analysis succeeded: the model answered with a usable narrative
Succeeded == {k \in 1 .. Len(results) : results[k].kind = "narrative"}

IsFailure(out) == out.kind \in {"analysis_failed", "pipeline_error"}

\* C5: when analyze_video has returned and no chunk's analysis succeeded (no chunk
\* at all, or every chunk failed, in whatever way), it returned the failure result.
C5_AllFailedGivesFailure ==
    (Done /\ Succeeded = {}) => IsFailure(output)

\* C6: when analyze_video has returned and some chunk's analysis succeeded, it
\* returned a document with that chunk's narrative and with a summary section; the
\* section holds the placeholder when the summary call raised or answered nothing.
C6_DocumentWithSummarySection ==
    (Done /\ Succeeded # {})
    => /\ output.kind = "document"
       /\ \A k \in Succeeded : \E n \in 1 .. Len(output.sections) :
             output.sections[n] = results[k]
       /\ Len(output.summary) = 1
       /\ (summary_outcome.kind # "text" \/ summary_outcome.length = 0)
             => output.summary[1].kind = "placeholder"

\* C7: generate_content is invoked at most 3 times for a chunk.
C7_AtMostThreeCallsPerChunk == calls <= 3

\* C8: a segment that reports an analyzer error carries its chunk and the reason,
\* and is in results only, never in successful_results.
C8_ErrorSegmentIsAFailure ==
    /\ \A k \in 1 .. Len(results) :
          results[k].kind = "analysis_error"
             => results[k].chunk = k /\ results[k].reason = "error"
    /\ \A k \in 1 .. Len(successful_results) :
          successful_results[k].kind # "analysis_error"

\* C9: any two consecutive requests of a run start at least RATE_LIMIT_DELAY
\* apart, and the first n requests span at least (n - 1) * RATE_LIMIT_DELAY.
C9_MinInterRequestDelay ==
    /\ nreq >= 2 => lastGap >= RATE_LIMIT_DELAY
    /\ span >= (nreq - 1) * RATE_LIMIT_DELAY

\* C9's case: a request that rate_limit held back: it started exactly
\* RATE_LIMIT_DELAY after the one before
C9_Witness ==
    /\ nreq >= 3
    /\ lastGap = RATE_LIMIT_DELAY
    /\ span < SpanCap

(***************************************************************************)
(* The claims about the reconciliation, checked under SpecReconcile.       *)
(***************************************************************************)
\* the master steps 1 .. n that have no equivalent in current, in master order
RECURSIVE MissingDescriptions(_)
MissingDescriptions(n) ==
    IF n = 0
    THEN <<>>
    ELSE IF \E k \in 1 .. Len(current_procedure_steps) :
               isEquivalent(master_procedure_steps[n].description,
                            current_procedure_steps[k].description)
         THEN MissingDescriptions(n - 1)
         ELSE Append(MissingDescriptions(n - 1), master_procedure_steps[n].description)

\* C10: when the walk is over, missing_steps has one entry for each master step
\* without an equivalent in current and none for the others; the entries carry the
\* descriptions of those master steps, in master order.
C10_MissingStepsExact ==
    rec_pc = "done"
    => /\ Len(missing_steps) = Len(MissingDescriptions(Len(master_procedure_steps)))
       /\ \A k \in 1 .. Len(missing_steps) :
             missing_steps[k].missing_step =
                MissingDescriptions(Len(master_procedure_steps))[k]

\* C10's case: master A, B, C against a current that words A differently and lacks
\* B: one entry, for B
C10_Witness ==
    /\ rec_pc = "done"
    /\ Len(master_procedure_steps) = 3
    /\ master_procedure_steps[1].description = "A"
    /\ master_procedure_steps[2].description = "B"
    /\ master_procedure_steps[3].description = "C"
    /\ Len(current_procedure_steps) = 2
    /\ current_procedure_steps[1].description = "A*"
    /\ current_procedure_steps[2].description = "C"
    /\ Len(missing_steps) = 1
    /\ missing_steps[1].missing_step = "B"

\* C11: an entry of missing_steps for a master step that is not the first, and
\* whose preceding master step has an equivalent in current, has as its
\* should_occur_after the end timestamp of such an equivalent step of current.
C11_AnchorIsEndInCurrent ==
    \A k \in 1 .. Len(missing_steps) :
        (/\ missing_from[k] > 1
         /\ EquivalentsOf(master_procedure_steps[missing_from[k] - 1],
                          current_procedure_steps) # {})
        => \E e \in EquivalentsOf(master_procedure_steps[missing_from[k] - 1],
                                  current_procedure_steps) :
              missing_steps[k].should_occur_after = current_procedure_steps[e].end

\* C11's case, the example of the prompt: current A 0-5 s, C 5-10 s against master
\* A 0-3 s, B 3-6 s, C 6-9 s; B is missing and should occur after 00:00:05, where
\* A ends in current, not after 00:00:03, where it ends in master
C11_Witness ==
    /\ rec_pc = "done"
    /\ Len(master_procedure_steps) = 3
    /\ master_procedure_steps[1].description = "A"
    /\ master_procedure_steps[1].end = format_timestamp(3)
    /\ master_procedure_steps[2].description = "B"
    /\ Len(current_procedure_steps) = 2
    /\ current_procedure_steps[1].description = "A"
    /\ current_procedure_steps[2].description = "C"
    /\ agent_output.kind = "object"
    /\ agent_output.missing_steps =
          <<[missing_step |-> "B", should_occur_after |-> format_timestamp(5)]>>

\* C12: the entry of missing_steps for the first master step has 00:00:00 as its
\* should_occur_after.
C12_FirstStepAnchoredAtZero ==
    \A k \in 1 .. Len(missing_steps) :
        missing_from[k] = 1
        => missing_steps[k].should_occur_after = format_timestamp(0)

\* C12's case: the first of several master steps is missing from a current that
\* has steps, and the agent has answered
C12_Witness ==
    /\ rec_pc = "done"
    /\ Len(master_procedure_steps) > 1
    /\ current_procedure_steps # <<>>
    /\ IsMissing(master_procedure_steps[1], current_procedure_steps)
    /\ agent_output.kind = "object"
    /\ agent_output.missing_steps[1] =
          [missing_step |-> master_procedure_steps[1].description,
           should_occur_after |-> format_timestamp(0)]

\* no record of the collection is similar to the fresh analysis, by surgery_type
\* or by summary
NoRecordMatches ==
    \A k \in 1 .. Len(master_surgeries) :
        /\ ~isEquivalent(master_surgeries[k].surgery_type, fresh.surgery_type)
        /\ ~isEquivalent(master_surgeries[k].summary, fresh.summary)

\* C13: when no record of the master collection matches, the agent's next and
\* final answer is "no similar data found"; it answers with an object only after a
\* record has matched, and with an object whose missing_steps is empty only when
\* every step of that record has an equivalent in current.
C13_NoMatchGivesSentinel ==
    /\ [][(rec_pc = "match" /\ NoRecordMatches)
             => (rec_pc' = "done" /\ agent_output' = NoSimilarData)]_vars
    /\ [][agent_output = NoSimilarData => agent_output' = NoSimilarData]_vars
    /\ [](agent_output.kind = "object"
             => /\ matched_by # "none"
                /\ agent_output.missing_steps = <<>>
                      => \A n \in 1 .. Len(agent_output.master_procedure_steps) :
                            ~IsMissing(agent_output.master_procedure_steps[n],
                                       agent_output.current_procedure_steps))

\* C13's case: the collection has two records, neither is similar to the fresh
\* analysis, and the agent has answered
C13_Witness ==
    /\ rec_pc = "done"
    /\ Len(master_surgeries) = 2
    /\ NoRecordMatches
    /\ agent_output = NoSimilarData

(***************************************************************************)
(* The claims about the HTTP endpoints, checked under SpecHttp.            *)
(***************************************************************************)
AskedForSteps == http_request.endpoint = "/master-surgeries/steps"

Uploaded == http_request.endpoint \in {"/analyze-video", "/compare-video"}

\* no record of the master collection has the requested surgery_type
TypeAbsent ==
    \A k \in 1 .. Len(http_request.master_surgeries) :
        http_request.master_surgeries[k].surgery_type # http_request.surgery_type

\* C17: GET /master-surgeries/steps for a surgery_type no master record has is
\* answered with status 404.
C17_AbsentTypeGives404 ==
    (AskedForSteps /\ ~http_request.db_raises /\ TypeAbsent)
    => http_response.status = 404

NamesNoVideo ==
    /\ http_request.content_type.major # "video"
    /\ Lower(http_request.filename.ext) \notin {".mp4", ".avi", ".mov", ".mkv"}

Stopping == ctl_pc = "join"

\* the threads that have been started and have not left their loops
InLoop(pcs) == {s \in Sessions : pcs[s] \notin {"unborn", "exited"}}

\* C19: the frame queue never holds more than maxsize = 10 frames.  A capture
\* thread in its loop can always take its next step, whatever the queue holds, and
\* is in its loop or out of it afterwards; a step taken with a full queue leaves
\* the queue as it is; and a round that leaves its frame out has made that frame
\* the most recent frame, a new one.
C19_QueueBoundedCaptureNeverBlocks ==
    /\ [](Len(frame_queue) <= maxsize)
    /\ [](\A s \in Sessions : capture_pc[s] = "loop" => ENABLED CaptureThread(s))
    /\ [][\A s \in Sessions :
             CaptureThread(s)
                => /\ capture_pc'[s] \in {"loop", "exited"}
                   /\ Len(frame_queue) = maxsize => frame_queue' = frame_queue
                   /\ (capture_pc'[s] = "loop" /\ dropped')
                         => /\ Len(frame_queue) = maxsize
                            /\ current_frame' # current_frame
                            /\ current_frame' # 0]_vars

\* C19's case: the queue is full, the capture loop has just left a frame out, has
\* made it the most recent frame, and is in its loop still
C19_Witness ==
    /\ Len(frame_queue) = maxsize
    /\ dropped
    /\ current_frame # 0
    /\ is_running
    /\ capture_pc[1] = "loop"

\* C20: the step that begins stop_capture clears is_running; while stop_capture
\* is under way its return is never held up, wherever the threads stand; when it
\* returns the device is released and video_capture is None, whatever the threads
\* do; and once is_running is cleared, either it is set again (by a start_capture)
\* or every capture thread and every analysis thread leaves its loop.
C20_StopReleasesAndLoopsEnd ==
    /\ [][(~Stopping /\ Stopping') => ~is_running']_vars
    /\ [](Stopping => ENABLED JoinAndRelease)
    /\ [][(Stopping /\ ~Stopping') => (~device_open' /\ video_capture' = "None")]_vars
    /\ (~is_running ~> (is_running \/ (InLoop(capture_pc) = {} /\ InLoop(analysis_pc) = {})))

\* C20's case: stop_capture has returned and the device is released while a
\* capture thread and an analysis thread are still in their loops, the analysis
\* thread with a frame in hand
C20_Witness ==
    /\ ctl_pc = "idle"
    /\ sessions > 0
    /\ ~is_running
    /\ ~device_open
    /\ video_capture = "None"
    /\ capture_pc[1] = "loop"
    /\ analysis_pc[1] = "process"

(***************************************************************************)
(* The claims about the comparison of the live analysis, checked under     *)
(* SpecCompare.                                                            *)
(***************************************************************************)
\* the step is one of a thread analysing a frame
AnalysingAFrame ==
    \E t \in AnalysisThreads : BeginAnalyzeFrame(t) \/ EndAnalyzeFrame(t)

\* the step is one that starts a comparison thread
StartingAComparison == \E t \in AnalysisThreads : StartComparisonAgent(t)

\* C21: any two consecutive starts of the comparison thread are at least
\* comparison_rate_limit apart; analysing a frame leaves the time of the last
\* comparison as it is, and starting a comparison leaves the time of the last
\* request to the model as it is.
C21_ComparisonStartsApart ==
    /\ [](start_gap >= comparison_rate_limit)
    /\ [][AnalysingAFrame => since_comparison_call' = since_comparison_call]_vars
    /\ [][StartingAComparison => since_request' = since_request]_vars

\* a comparison result is cached: self.last_comparison_result is not None
Cached == last_comparison_result # NoneResult

\* C23 as it is stated, whatever the cached result is: when a comparison thread
\* is started while a comparison result is cached, the same step puts the frame's result with the cached comparison into
\* result_queue and leaves the new comparison in flight; and
\* last_comparison_result only ever changes to the output of an invoke that returned.
C23_CachedResultGoesOutAtOnce ==
    /\ [][(StartingAComparison /\ Cached) =>
             /\ result_queue' = Put(result_queue, Result(last_comparison_result))
             /\ in_flight' = in_flight + 1]_vars
    /\ [][last_comparison_result' # last_comparison_result =>
             \E text \in AgentOutputs :
                 /\ RunComparisonAgent([kind |-> "returns", text |-> text])
                 /\ last_comparison_result' = Str(text)]_vars

\* C23: when a comparison thread is started while a comparison result that is
\* not empty is cached, the same step puts the frame's result with the cached
\* comparison into result_queue and leaves the new comparison in flight; with no
\* cached result, or an empty one, the step puts nothing into result_queue; and
\* last_comparison_result only ever changes to the output of an invoke that returned.
C23_NonEmptyCachedResultGoesOutAtOnce ==
    /\ [][StartingAComparison =>
             /\ in_flight' = in_flight + 1
             /\ result_queue' = IF Bool(last_comparison_result)
                                THEN Put(result_queue, Result(last_comparison_result))
                                ELSE result_queue]_vars
    /\ [][last_comparison_result' # last_comparison_result =>
             \E text \in AgentOutputs :
                 /\ RunComparisonAgent([kind |-> "returns", text |-> text])
                 /\ last_comparison_result' = Str(text)]_vars

\* C23's case: a comparison was started with one still in flight while a
\* comparison was cached, and the frame's result with the cached comparison is in
\* result_queue
C23_Witness ==
    /\ in_flight = MaxInFlight
    /\ Bool(last_comparison_result)
    /\ result_queue.last = Result(last_comparison_result)

(***************************************************************************)
(* The claims about requests served side by side and about crashes,        *)
(* checked under SpecRequests.                                             *)
(***************************************************************************)
Documents == 1 .. Len(master_collection)

\* list a is the beginning of list b
IsPrefix(a, b) == Len(a) <= Len(b) /\ SubSeq(b, 1, Len(a)) = a

\* list a lies in list b, unbroken
LiesIn(a, b) == \E n \in 0 .. (Len(b) - Len(a)) : SubSeq(b, n + 1, n + Len(a)) = a

\* the step merges the request of worker w into document k as a whole:
\* procedure_steps, summary and last_updated all take the values of that merge
MergedWhole(w, k) ==
    /\ request_pc[w] = "write"
    /\ master_collection'[k].procedure_steps =
          existing_doc[w].procedure_steps \o StepsOfRequest(request[w].number)
    /\ master_collection'[k].summary = SummaryOfRequest(request[w].number)
    /\ master_collection'[k].last_updated = store_now'
    /\ master_collection'[k].last_updated > master_collection[k].last_updated

\* C22: a crash leaves the master collection as it is, wherever the requests under
\* way stand; every step leaves a master record either as it was or with
\* procedure_steps, summary and last_updated all set by one merge; and so in every
\* state the steps of a master record end with the steps of the request its summary
\* is from.
C22_CrashLeavesMasterWhole ==
    /\ [][Crash => master_collection' = master_collection]_vars
    /\ [][\A k \in Documents :
             \/ master_collection'[k] = master_collection[k]
             \/ \E w \in Workers : MergedWhole(w, k)]_vars
    /\ [](\A k \in Documents :
             LET doc == master_collection[k]
                 mine == StepsOfRequest(doc.summary.request)
             IN /\ Len(doc.procedure_steps) >= Len(mine)
                /\ SubSeq(doc.procedure_steps,
                          Len(doc.procedure_steps) - Len(mine) + 1,
                          Len(doc.procedure_steps)) = mine
                /\ doc.last_updated >= doc.created_at)

\* the requests whose merge reached the master collection
MergedRequests == UNION {merged_requests[k] : k \in 1 .. Len(merged_requests)}

\* C22's case: the process crashed after a raw analysis was stored and before it
\* was merged, beside a master record that an earlier request had written
C22_Witness ==
    /\ crashes > 0
    /\ master_collection # <<>>
    /\ Len(analysis_collection) > Cardinality(MergedRequests)
    /\ \A w \in Workers : request_pc[w] = "idle"

\* C24: an update keeps the steps the record held before in front, and the steps of
\* every request merged into a record lie in its procedure_steps, unbroken,
\* however the finds and the updates of the requests interleave.
C24_InterleavedMergesKeepBothSteps ==
    /\ [][\A k \in Documents :
             IsPrefix(master_collection[k].procedure_steps,
                      master_collection'[k].procedure_steps)]_vars
    /\ [](\A k \in Documents : \A r \in merged_requests[k] :
             LiesIn(StepsOfRequest(r), master_collection[k].procedure_steps))

\* C25: no two master records have the same surgery_type, however the finds and
\* the inserts of the requests interleave.
C25_OneRecordPerSurgeryType ==
    \A k1 \in Documents, k2 \in Documents :
        master_collection[k1].surgery_type = master_collection[k2].surgery_type
            => k1 = k2

(***************************************************************************)
(* The claims about failed chunks, the summary pass and the order of the   *)
(* sections, checked under SpecPipeline.                                   *)
(***************************************************************************)
\* the step is the request that exhausts chunk i: the last attempt of the last
\* retry, answered with ResourceExhausted
ExhaustsChunk ==
    /\ pc = "chunk"
    /\ retry_count + 1 >= max_retries
    /\ attempt >= stop_after_attempt
    /\ \E latency \in 0 .. MaxLatency :
          ChunkAttempt([kind |-> "exhausted", length |-> 0], latency)

\* the for loop of analyze_video is over and nothing outside it raised
LoopOver == pc \in {"summary", "done"} /\ output # PipelineError /\ i > 0

\* C26: the request that exhausts chunk i on ResourceExhausted appends one
\* failure segment of chunk i to results, which then has one section per chunk
\* up to i, and the loop goes on to chunk i + 1 when there is one; when the loop
\* is over every chunk has its section, and the section of chunk c carries c.
C26_ExhaustedChunkGivesOneFailureSegment ==
    /\ [][ExhaustsChunk =>
             /\ results' = Append(results, FailedSegment(i, "exhausted"))
             /\ Len(results') = i
             /\ output' # PipelineError
             /\ IF i < chunks
                THEN pc' = "chunk" /\ i' = i + 1
                ELSE pc' \in {"summary", "done"}]_vars
    /\ [](LoopOver => Len(results) = chunks)
    /\ [](\A c \in 1 .. Len(results) :
             results[c].kind = "processing_failed" => results[c].chunk = c)

\* C26's case: chunk 1 was given up on ResourceExhausted and chunk 2 was
\* processed after it
C26_Witness ==
    /\ Len(results) >= 2
    /\ results[1] = FailedSegment(1, "exhausted")
    /\ results[2].kind = "narrative"

\* C27: the summary pass is reached only when the loop is over with every chunk
\* processed, its input is the narratives of the chunks that succeeded and nothing
\* else, it is invoked once, and a run in which no chunk succeeded ends without it.
C27_SummaryOnceOverSuccessfulNarratives ==
    /\ [](pc = "summary" =>
             /\ Len(results) = chunks
             /\ successful_results =
                   SelectSeq(results, LAMBDA section : section.kind = "narrative")
             /\ Succeeded # {})
    /\ [][pc = "summary" => pc' = "done"]_vars
    /\ []((Done /\ Succeeded # {}) => summary_outcome # NoOutcome)
    /\ []((Done /\ Succeeded = {}) => summary_outcome = NoOutcome)

\* the kinds of section a chunk can have: its narrative, or a failure segment
SectionKinds == {"narrative", "analysis_error", "processing_failed"}

\* C29: the loop goes from chunk i to chunk i + 1 only, and only when results has
\* one section for each chunk up to i; the section of chunk c carries c; and the
\* composed document holds the sections of results, one per chunk, in that order.
C29_OneSectionPerChunkInOrder ==
    /\ [][i' = i \/ (i' = i + 1 /\ Len(results') = i)]_vars
    /\ [](\A c \in 1 .. Len(results) :
             results[c].chunk = c /\ results[c].kind \in SectionKinds)
    /\ [](output.kind = "document" =>
             /\ Len(output.sections) = chunks
             /\ output.sections = results)

\* C29's case: a document of a narrative and a failure segment, in chunk order
C29_Witness ==
    /\ output.kind = "document"
    /\ Len(output.sections) = 2
    /\ output.sections[1].kind = "processing_failed"
    /\ output.sections[2].kind = "narrative"
    /\ output.sections[1].chunk = 1
    /\ output.sections[2].chunk = 2

(***************************************************************************)
(* Claims about the two rate limiters.                                     *)
(***************************************************************************)

\* C28: any two consecutive requests to the model start at least
\* RATE_LIMIT_DELAY apart, whichever of the chunk analysis, the summary pass and
\* the frame analysis sends them, and from whichever thread.
C28_DelayIsGlobal == request_gap.gap >= RATE_LIMIT_DELAY

(***************************************************************************)
(* Claims about the anchor of a missing step whose preceding master step   *)
(* is missing too.                                                         *)
(***************************************************************************)

\* the end timestamps of the steps of current
EndsOf(current) == {current[k].end : k \in 1 .. Len(current)}

\* C30: every entry of missing_steps, also one whose preceding master step is
\* itself missing from current, has as its should_occur_after either 00:00:00 or
\* the end timestamp of a step of current.
C30_AnchorDefinedForEveryInput ==
    \A k \in 1 .. Len(missing_steps) :
        missing_steps[k].should_occur_after
            \in {format_timestamp(0)} \cup EndsOf(current_procedure_steps)

(***************************************************************************)
(* Further claims about the master store, checked under SpecStore.         *)
(***************************************************************************)
\* the documents of coll whose surgery_type is the very string given
OfExactType(coll, surgery_type) ==
    {k \in 1 .. Len(coll) : coll[k].surgery_type = surgery_type}

\* C31: a call without a master_id merges into a document only when the
\* document's surgery_type is the very string given; when no document has that
\* very string, also when one has it in another letter case, the call inserts a
\* document of its own and leaves every other document as it was.
C31_TypeMatchedExactly ==
    (Called /\ ~Truthy(lastCall.master_id))
    => /\ lastCall.existing # 0
          => lastCall.before[lastCall.existing].surgery_type = lastCall.surgery_type
       /\ OfExactType(lastCall.before, lastCall.surgery_type) = {}
          => /\ lastCall.existing = 0
             /\ Len(master_collection) = Len(lastCall.before) + 1
             /\ master_collection[Len(master_collection)].surgery_type =
                   lastCall.surgery_type
             /\ \A k \in 1 .. Len(lastCall.before) : Untouched(k)

\* C31's case: the collection has a document of one spelling, a call without a
\* master_id brings the other spelling, and two documents are there afterwards
C31_Witness ==
    /\ Called
    /\ ~Truthy(lastCall.master_id)
    /\ Len(lastCall.before) = 1
    /\ lastCall.before[1].surgery_type = "Hernia repair"
    /\ lastCall.surgery_type = "hernia repair"
    /\ Len(master_collection) = 2
    /\ master_collection[1].surgery_type = "Hernia repair"
    /\ master_collection[2].surgery_type = "hernia repair"

(***************************************************************************)
(* Further claims about the HTTP endpoints, checked under SpecHttp.        *)
(***************************************************************************)
\* C32: when the pipeline of a POST /analyze-video handed back one of its two
\* failures, the answer is an error with status 500 and the agent was not invoked.
C32_TotalFailureAnswersWithError ==
    (/\ http_request.endpoint = "/analyze-video"
     /\ pipeline_invoked
     /\ http_request.raw_analysis \in {"analysis_failed", "pipeline_error"})
    => /\ http_response.status = 500
       /\ ~agent_invoked

(***************************************************************************)
(* Further claims about the tools, checked under SpecTools.                *)
(***************************************************************************)
\* what get_master_surgeries_tool hands to the agent for an empty collection
NoMatchingSurgeries == get_master_surgeries_tool(get_master_surgeries_db(FALSE, <<>>))

\* C35: when the store raised while get_master_surgeries read the master
\* collection, what the tool hands to the agent is not what it hands over for an
\* empty collection.
C35_ReadFailureToldApartFromEmpty ==
    (Called /\ lastCall.op = "get_master_surgeries" /\ lastCall.fault # "none")
    => tool_result # NoMatchingSurgeries

(***************************************************************************)
(* Claims about a frame's way to result_queue, checked under SpecPublish.  *)
(***************************************************************************)
OnItsWay == followed \in {"analysis", "comparison"}
Published == followed \in {"put_basic", "put_with_cached", "put_by_comparison"}

C34_OneCaptureOneAnalysis ==
    /\ Cardinality(InLoop(capture_pc)) <= 1
    /\ Cardinality(InLoop(analysis_pc)) <= 1

(***************************************************************************)
(* Claims about the procedure steps of the live analysis, checked under    *)
(* SpecSteps.                                                              *)
(***************************************************************************)
\* C36: each accumulated step starts where the step appended before it ends, and
\* while no step has been cut off the first one starts at 00:00:00.
C36_StepsAreContiguous ==
    LET steps == timeline.accumulated_steps
    IN  /\ \A k \in 2 .. Len(steps) : steps[k].start = steps[k - 1].end
        /\ Len(steps) \in 1 .. (KeptSteps - 1) => steps[1].start = format_timestamp(0)

(***************************************************************************)
(* The frame of a merge, checked under SpecTools.                          *)
(***************************************************************************)
\* the step is a call of add_to_master_surgeries that resolves to an existing
\* document and whose update_one goes through
MergesIntoExisting ==
    /\ ncalls' = ncalls + 1
    /\ lastCall'.op = "add_to_master_surgeries"
    /\ lastCall'.existing # 0
    /\ ~Raises(lastCall'.fault)

C38_OneRecordPerTypeNoneRemoved ==
    /\ \A a, b \in 1 .. Len(master_collection) :
          a # b => master_collection[a].surgery_type # master_collection[b].surgery_type
    /\ Called =>
          /\ Len(master_collection) >= Len(lastCall.before)
          /\ \A k \in 1 .. Len(lastCall.before) :
                master_collection[k]._id = lastCall.before[k]._id

\* C38's case: two documents, one of each spelling, and a third call that comes
\* with a master_id that names no document, or is no ObjectId, and is merged into
\* the document of its surgery_type
C38_Witness ==
    /\ ncalls = 3
    /\ Len(master_collection) = 2
    /\ Len(lastCall.before) = 2
    /\ Truthy(lastCall.master_id)
    /\ ObjectId(lastCall.master_id) \notin IdsOf(lastCall.before)
    /\ lastCall.existing # 0

(***************************************************************************)
(* Termination of the chunked pipeline, checked under SpecPipeline: every  *)
(* step of NextPipeline is one request to the model, or the start of the   *)
(* run, and a natural number that every step lowers bounds their count.    *)
(***************************************************************************)
\* the requests analyze_video can make for one chunk: the while loop of lines
\* 244-273 times tenacity's attempts
RequestsPerChunk == max_retries * stop_after_attempt

\* the requests analyze_video can still make for the chunk at hand, the one it
\* is about to make included
AttemptsLeft ==
    (max_retries - retry_count - 1) * stop_after_attempt
        + (stop_after_attempt - attempt + 1)

\* the steps analyze_video can still take: the requests for the chunks, the
\* request for the summary and, before the chunks are known, the start
StepsLeft ==
    CASE pc = "start" -> MaxChunks * RequestsPerChunk + 2
      [] pc = "chunk" -> (chunks - i) * RequestsPerChunk + AttemptsLeft + 1
      [] pc = "summary" -> 1
      [] pc = "done" -> 0

\* what analyze_video returns is a str: the document or one of the two failure
\* texts
IsString(out) == out.kind \in {"document", "analysis_failed", "pipeline_error"}

\* C39: analyze_video comes to its end whatever the chunks and whatever the
\* model does at each request: the count of steps left is a natural number that
\* every step lowers, a step is possible until the function has returned, a
\* chunk gets at most max_retries times stop_after_attempt requests, and what
\* the function has returned at the end is a string.
C39_AnalyzeVideoTerminates ==
    /\ [](StepsLeft \in Nat)
    /\ [][StepsLeft' < StepsLeft]_vars
    /\ [](~Done => ENABLED NextPipeline)
    /\ [](pc = "chunk" => AttemptsLeft \in 1 .. RequestsPerChunk)
    /\ [](calls <= RequestsPerChunk)
    /\ [](Done <=> IsString(output))

\* C39's case: the run ended after every request on a chunk had failed, with
\* ResourceExhausted each time
C39_Witness ==
    /\ Done
    /\ calls = RequestsPerChunk
    /\ results # <<>>
    /\ results[Len(results)] = FailedSegment(Len(results), "exhausted")
    /\ IsString(output)

====
